---- MODULE Spec2Model ----
(***************************************************************************)
(* rope: minimal version selection (mvs.go) over a package index.          *)
(*                                                                         *)
(* A version is modelled by its single release segment: a positive number  *)
(* is the version with that release, 0 is the zero value Version{} (the    *)
(* unspecified version).  Names are Go strings; the resolver's map keys     *)
(* are the string concatenation the code builds.                           *)
(*                                                                         *)
(* The index is an input.  Whether a version of a name exists, and which    *)
(* dependencies a package declares, is fixed the first time FindPackage    *)
(* reads it and never changes afterwards (except by the release of a new   *)
(* version between two runs).  The index modelled is the one the add       *)
(* command uses, PyPI, which relaxes the search when the version asked for *)
(* does not exist; an index that holds every version it is asked for       *)
(* (testPackageIndex in the tests) is the case where no search is relaxed. *)
(***************************************************************************)
EXTENDS Naturals, Integers, Sequences, FiniteSets, TLC

\* ------------------------------------------------------------------ bounds
MaxVer == 1
MaxBase == 2
MaxDeps == 1
MaxDependents == 2
MaxOps == 2

\* --------------------------------------------------------------- domains
\* Normalized package names; "a1" ends in a digit.
Names == {"a", "a1", "b"}

\* sort.Slice(..., Name < Name): Go compares strings bytewise.
NameOrder == <<"a", "a1", "b">>

\* Specified versions: the one-digit releases 1..MaxVer and the two-digit
\* releases 11..10+MaxVer.
Versions == (1..MaxVer) \cup {10 + v : v \in 1..MaxVer}

Unspec == 0

NoError == [context |-> "", cause |-> ""]
ErrPackageNotFound == "package not found"

\* ------------------------------------------------------------ version pkg
Unspecified(v) == v = Unspec

Compare(a, b) == IF a > b THEN 1 ELSE IF a < b THEN -1 ELSE 0

GreaterThan(v, v2) == Compare(v, v2) = 1

Equal(v, v2) == v = v2

Digit(d) == CASE d = 0 -> "0" [] d = 1 -> "1" [] d = 2 -> "2" [] d = 3 -> "3"
              [] d = 4 -> "4" [] d = 5 -> "5" [] d = 6 -> "6" [] d = 7 -> "7"
              [] d = 8 -> "8" [] d = 9 -> "9"

RECURSIVE Decimal(_)
Decimal(n) == IF n < 10 THEN Digit(n) ELSE Decimal(n \div 10) \o Digit(n % 10)

Canonical(v) == Decimal(v)

String(v) == IF Unspecified(v) THEN "<latest>" ELSE Canonical(v)

\* ------------------------------------------------------------- Dependency
Dependency(n, v, u, m) == [Name |-> n, Version |-> v, Unspecified |-> u, Mismatch |-> m]

Req(n, v) == Dependency(n, v, FALSE, FALSE)

AllReqs == {Req(n, v) : n \in Names, v \in Versions \cup {Unspec}}

RECURSIVE SeqsUpTo(_, _)
SeqsUpTo(S, k) ==
    IF k = 0 THEN {<<>>}
    ELSE LET shorter == SeqsUpTo(S, k - 1)
         IN  shorter \cup {Append(s, x) : s \in {t \in shorter : Len(t) = k - 1}, x \in S}

BaseLists == SeqsUpTo(AllReqs, MaxBase)

DepLists == SeqsUpTo(AllReqs, MaxDeps)

Range(s) == {s[i] : i \in 1..Len(s)}

VARIABLES
    present,            \* index: <<name, version>> -> BOOLEAN, exists or not; enters when first read
    pdeps,              \* index: <<name, version>> -> declared dependencies; enters when first returned
    base,               \* the argument base
    work,               \* the FIFO work
    visited,            \* set of dependencyID strings
    buildDependencies,  \* map name -> node
    pc,                 \* "loop" | "done" | "error"
    buildList, minimalList, err,   \* the three results
    explored,           \* history: [name, asked, found] for every FindPackage that returned in this run
    enq,                \* history: requirement -> times appended to work in this run
    failed,             \* history: <<d>> for the requirement d whose FindPackage failed
    run,                \* 1 for the first run, 2 for the run that follows it
    mode,               \* how run 2 was started
    first               \* run 1 as run 2 looks back at it: base names, build and minimal list

mvsVars == <<present, pdeps, base, work, visited, buildDependencies, pc,
             buildList, minimalList, err, explored, enq, failed, run, mode, first>>

\* The wheel cache (cache.go), the index that consults it (index.go) and the
\* download that fills it (wheel.go), for one package directory of the cache.
VARIABLES
    cacheOnlyEnv,       \* os.Getenv("ROPE_CACHE_ONLY")
    root,               \* the process may open a file whatever its permission bits
    indexJson,          \* index.json of the directory: exists, lines (the filenames recorded)
    cacheDir,           \* the wheel files present in the directory
    tempFiles,          \* the temporary directory: path -> digest of the file's bytes
    rope,               \* the running operation and its position
    requests,           \* HTTP requests issued so far
    returned,           \* what the last finished operation returned
    observed,           \* what the last GetWheel of another rope process returned
    added,              \* history: the wheels for which AddWheel returned without error
    ops                 \* operations started so far

cacheVars == <<cacheOnlyEnv, root, indexJson, cacheDir, tempFiles, rope,
               requests, returned, observed, added, ops>>

\* A call of a function of the version package or of the manifest, and its result.
VARIABLES
    call,               \* the function and its arguments
    ret                 \* Pending until the call has returned, then its result

pureVars == <<call, ret>>

\* The add command (add.go), the manifest it reads and writes (util.go) and the
\* installation of wheels (wheel.go).
VARIABLES
    ropefile,           \* rope.json: absent, valid (its "dependencies" strings) or no valid JSON
    ropedir,            \* ./ropedir/0: install path -> the archive files present under it
    cmd,                \* the add command and its position
    inst,               \* the call of Wheel.Install in progress, or its return
    exitCode            \* the exit code of the process, -1 while it runs

cmdVars == <<ropefile, ropedir, cmd, inst, exitCode>>

vars == <<mvsVars, cacheVars, pureVars, cmdVars>>

Idle == [pc |-> "idle"]

Nothing == [op |-> "none"]

NoCall == [fn |-> "none"]

Pending == [done |-> FALSE]

\* No cache operation is in progress or has been made.
CacheUnused ==
    /\ cacheOnlyEnv = "" /\ root = FALSE
    /\ indexJson = [exists |-> FALSE, perm |-> 0, lines |-> <<>>]
    /\ cacheDir = {} /\ tempFiles = <<>>
    /\ rope = Idle /\ requests = 0
    /\ returned = Nothing /\ observed = Nothing /\ added = {} /\ ops = 0

\* No function call is modelled.
PureUnused == call = NoCall /\ ret = Pending

NoInstall == [pc |-> "idle", filename |-> "", i |-> 0, path |-> "", err |-> "", n |-> 0]

\* No command runs and nothing is installed.
CmdUnused ==
    /\ ropefile = [state |-> "absent", deps |-> <<>>]
    /\ ropedir = <<>>
    /\ cmd = Idle /\ inst = NoInstall /\ exitCode = -1

\* No resolver run is modelled.
MvsUnused ==
    /\ present = <<>> /\ pdeps = <<>> /\ base = <<>> /\ work = <<>>
    /\ visited = {} /\ buildDependencies = <<>> /\ pc = "unused"
    /\ buildList = <<>> /\ minimalList = <<>> /\ err = NoError
    /\ explored = {} /\ enq = <<>> /\ failed = <<>>
    /\ run = 0 /\ mode = "unused"
    /\ first = [names |-> {}, build |-> <<>>, minimal |-> <<>>]

\* ------------------------------------------------------------------ index
Max(S) == CHOOSE x \in S : \A y \in S : y <= x

Min(S) == CHOOSE x \in S : \A y \in S : x <= y

\* PyPI.findMin: the lowest release >= min.
findMin(have, min) ==
    LET vs == {w \in have : Compare(w, min) >= 0}
    IN  IF vs = {} THEN Unspec ELSE Min(vs)

\* PyPI.FindPackage over the releases `have` of the name: the version of the
\* package returned, Unspec standing for the error ErrPackageNotFound.  An
\* unspecified request is answered with the latest release; a specified one
\* with that release, or on 404 with findMin.
FindPackage(have, v) ==
    IF Unspecified(v) THEN (IF have = {} THEN Unspec ELSE Max(have))
    ELSE IF v \in have THEN v ELSE findMin(have, v)

\* The releases whose existence FindPackage(have, v) = pv has read.
ReadBy(v, pv) ==
    IF Unspecified(v) THEN {w \in Versions : pv = Unspec \/ w >= pv}
    ELSE IF pv = v THEN {v}
    ELSE {w \in Versions : w >= v /\ (pv = Unspec \/ w <= pv)}

\* The release sets of name n that agree with what has been read so far.
Holdings(pres, n) ==
    {have \in SUBSET Versions :
        \A w \in Versions : <<n, w>> \in DOMAIN pres => (pres[<<n, w>>] <=> w \in have)}

\* present after FindPackage(have, v) = pv has read the index for name n.
Learn(pres, n, have, v, pv) ==
    [k \in DOMAIN pres \cup {<<n, w>> : w \in ReadBy(v, pv)} |->
        IF k \in DOMAIN pres THEN pres[k] ELSE k[2] \in have]

Dependents(pd) == {k \in DOMAIN pd : pd[k] # <<>>}

\* The dependency lists a package first returned may turn out to declare.
Reveal(pd) == IF Cardinality(Dependents(pd)) < MaxDependents THEN DepLists ELSE {<<>>}

\* ---------------------------------------------------------------- resolver
\* replace with its first test inverted: an unspecified requirement replaces.
replace_UnspecifiedReplaces(d1, v2, v2unspecified) ==
    IF v2unspecified THEN TRUE
    ELSE IF d1.Unspecified THEN TRUE
    ELSE GreaterThan(v2, d1.Version)

\* replace returns true if v2 should replace d1
replace(d1, v2, v2unspecified) ==
    IF v2unspecified THEN FALSE
    ELSE IF d1.Unspecified THEN TRUE
    ELSE GreaterThan(v2, d1.Version)

dependencyID(n, v) == n \o String(v)

\* The node records the version asked for instead of the version found.
NewNode_VersionAsked(pname, pversion, d, deps) ==
    [value |-> Dependency(pname, d.Version,
                          Unspecified(d.Version),
                          ~Unspecified(d.Version) /\ ~Equal(pversion, d.Version)),
     dependencies |-> deps]

\* buildDependencies[p.Name()] = node{...}
NewNode(pname, pversion, d, deps) ==
    [value |-> Dependency(pname, pversion,
                          Unspecified(d.Version),
                          ~Unspecified(d.Version) /\ ~Equal(pversion, d.Version)),
     dependencies |-> deps]

NeedsPackage(bd, d) ==
    IF d.Name \notin DOMAIN bd THEN TRUE
    ELSE replace(bd[d.Name].value, d.Version, Unspecified(d.Version))

\* How often requirement d was appended to work.
Count(e, d) == IF d \in DOMAIN e THEN e[d] ELSE 0

RECURSIVE Enqueue(_, _, _)
\* The loop without the visited test: every declared dependency is appended.
Enqueue_NoVisited(deps, i, st) ==
    IF i > Len(deps) THEN st
    ELSE LET d == deps[i]
             id == dependencyID(d.Name, d.Version)
         IN  Enqueue(deps, i + 1,
                     [visited |-> st.visited \cup {id},
                      work |-> Append(st.work, d),
                      enq |-> (d :> Count(st.enq, d) + 1) @@ st.enq])

\* for _, d := range p.Dependencies(): skip the visited, append the others.
Enqueue(deps, i, st) ==
    IF i > Len(deps) THEN st
    ELSE LET d == deps[i]
             id == dependencyID(d.Name, d.Version)
         IN  IF id \in st.visited THEN Enqueue(deps, i + 1, st)
             ELSE Enqueue(deps, i + 1,
                          [visited |-> st.visited \cup {id},
                           work |-> Append(st.work, d),
                           enq |-> (d :> Count(st.enq, d) + 1) @@ st.enq])

\* The index error returned as it is, without the requirement.
ErrorReturn_Unwrapped(d, e) == [build |-> <<>>, minimal |-> <<>>, err |-> [context |-> "", cause |-> e]]

\* return nil, nil, fmt.Errorf("finding package '%s-%s': %w", d.Name, d.Version, err)
ErrorReturn(d, e) ==
    [build |-> <<>>, minimal |-> <<>>,
     err |-> [context |-> d.Name \o "-" \o String(d.Version), cause |-> e]]

\* max: the version recorded for every name of buildDependencies (one node per name).
max(bd) == [n \in DOMAIN bd |-> bd[n].value.Version]

\* buildDependencies[name] of a Go map: the zero node when the key is missing.
ZeroNode == [value |-> Dependency("", Unspec, FALSE, FALSE), dependencies |-> <<>>]

Lookup(bd, n) == IF n \in DOMAIN bd THEN bd[n] ELSE ZeroNode

\* walk: depth-first over the recorded nodes; ws.cache is the map cache,
\* ws.unspecified the set of names flagged Unspecified or Mismatch.  (postorder is
\* appended to but never read: the loop that used it is commented out.)
\* The state after one walk is bound (w) before the next walk starts from it, so
\* that it is computed once.
\* if n.value.Unspecified || n.value.Mismatch { unspecified[n.value.Name] = true }
Pin(value) == value.Unspecified \/ value.Mismatch

RECURSIVE walk(_, _, _)
RECURSIVE walkDeps(_, _, _, _)
walk(bd, n, ws) ==
    LET id == dependencyID(n.value.Name, n.value.Version) IN
    IF id \in DOMAIN ws.cache THEN ws
    ELSE walkDeps(bd, n.dependencies, 1,
                  [cache |-> (id :> n.dependencies) @@ ws.cache,
                   unspecified |-> IF Pin(n.value)
                                   THEN ws.unspecified \cup {n.value.Name}
                                   ELSE ws.unspecified])

walkDeps(bd, deps, i, ws) ==
    IF i > Len(deps) THEN ws
    ELSE CHOOSE r \in {walkDeps(bd, deps, i + 1, w) :
                            w \in {walk(bd, Lookup(bd, deps[i].Name), ws)}} : TRUE

\* for _, node := range buildDependencies { walk(node) }, in the map order `order`.
RECURSIVE walkAll(_, _, _, _)
walkAll(bd, order, i, ws) ==
    IF i > Len(order) THEN ws
    ELSE CHOOSE r \in {walkAll(bd, order, i + 1, w) :
                            w \in {walk(bd, bd[order[i]], ws)}} : TRUE

\* for _, d := range base { minimalDependencies[d.Name] = {d.Name, max[d.Name]} }
\* (walk2 only fills the local set have, which nothing reads.)
RECURSIVE minimalFromBase(_, _, _, _)
minimalFromBase(b, i, mx, md) ==
    IF i > Len(b) THEN md
    ELSE minimalFromBase(b, i + 1, mx,
                         (b[i].Name :> Dependency(b[i].Name, mx[b[i].Name], FALSE, FALSE)) @@ md)

\* Every name of buildDependencies is pinned, not only the names in unspecified.
minimalDependencies_PinsAll(b, bd, unspecified) ==
    LET md == minimalFromBase(b, 1, max(bd), <<>>)
    IN  [n \in DOMAIN md \cup DOMAIN bd |->
            IF n \in DOMAIN bd THEN bd[n].value ELSE md[n]]

\* A base name that a recorded package requires is left out of the minimal list.
minimalDependencies_Reduced(b, bd, unspecified) ==
    LET md == minimalFromBase(b, 1, max(bd), <<>>)
        required == {d.Name : d \in UNION {Range(bd[n].dependencies) : n \in DOMAIN bd}}
    IN  [n \in (DOMAIN md \ required) \cup unspecified |->
            IF n \in unspecified THEN Lookup(bd, n).value ELSE md[n]]

\* for name := range unspecified { minimalDependencies[name] = buildDependencies[name].value }
minimalDependencies(b, bd, unspecified) ==
    LET md == minimalFromBase(b, 1, max(bd), <<>>)
    IN  [n \in DOMAIN md \cup unspecified |->
            IF n \in unspecified THEN Lookup(bd, n).value ELSE md[n]]

Position(n) == CHOOSE i \in 1..Len(NameOrder) : NameOrder[i] = n

NameLess(n1, n2) == Position(n1) < Position(n2)

RECURSIVE Insert(_, _)
Insert(sorted, x) ==
    IF sorted = <<>> THEN <<x>>
    ELSE IF NameLess(x.Name, Head(sorted).Name) THEN <<x>> \o sorted
    ELSE <<Head(sorted)>> \o Insert(Tail(sorted), x)

\* sort.Slice(list, func(i, j) bool { return list[i].Name < list[j].Name })
RECURSIVE SortByName(_)
SortByName(list) ==
    IF list = <<>> THEN <<>>
    ELSE CHOOSE r \in {Insert(sorted, Head(list)) : sorted \in {SortByName(Tail(list))}} : TRUE

\* The orders in which a range over a map with key set S may visit it.
Orders(S) == {o \in [1..Cardinality(S) -> S] : \A i, j \in 1..Cardinality(S) : o[i] = o[j] => i = j}

\* Restriction of an order to the keys in S.
RECURSIVE Filter(_, _)
Filter(o, S) ==
    IF o = <<>> THEN <<>>
    ELSE IF Head(o) \in S THEN <<Head(o)>> \o Filter(Tail(o), S) ELSE Filter(Tail(o), S)

\* buildList: the node values in map order, then sorted by name.
BuildListOf(bd, order) == SortByName([i \in 1..Len(order) |-> bd[order[i]].value])

\* minimalList: the minimalDependencies values in map order, then sorted by name.
MinimalListOf(md, order) ==
    LET o == Filter(order, DOMAIN md)
    IN  SortByName([i \in 1..Len(o) |-> md[o[i]]])

Init ==
    /\ present = <<>>
    /\ pdeps = <<>>
    /\ base \in BaseLists
    /\ work = base
    /\ visited = {}
    /\ buildDependencies = <<>>
    /\ pc = "loop"
    /\ buildList = <<>> /\ minimalList = <<>> /\ err = NoError
    /\ explored = {}
    /\ enq = <<>>
    /\ failed = <<>>
    /\ run = 1
    /\ mode = "first"
    /\ first = [names |-> {}, build |-> <<>>, minimal |-> <<>>]
    /\ CacheUnused /\ PureUnused /\ CmdUnused

\* Loop iteration whose dependency is already satisfied (the if at line 79 fails).
Skip ==
    /\ pc = "loop" /\ work # <<>>
    /\ ~NeedsPackage(buildDependencies, Head(work))
    /\ work' = Tail(work)
    /\ UNCHANGED <<present, pdeps, base, visited, buildDependencies, pc,
                   buildList, minimalList, err, explored, enq, failed, run, mode, first>>
    /\ UNCHANGED <<cacheVars, pureVars, cmdVars>>

\* Loop iteration where index.FindPackage fails: return nil, nil, error.
ExploreFail ==
    /\ pc = "loop" /\ work # <<>>
    /\ LET d == Head(work) IN
       /\ NeedsPackage(buildDependencies, d)
       /\ \E have \in Holdings(present, d.Name) :
            /\ FindPackage(have, d.Version) = Unspec
            /\ present' = Learn(present, d.Name, have, d.Version, Unspec)
            /\ pc' = "error"
            /\ err' = ErrorReturn(d, ErrPackageNotFound).err
            /\ buildList' = ErrorReturn(d, ErrPackageNotFound).build
            /\ minimalList' = ErrorReturn(d, ErrPackageNotFound).minimal
            /\ failed' = <<d>>
            /\ work' = Tail(work)
    /\ UNCHANGED <<pdeps, base, visited, buildDependencies,
                   explored, enq, run, mode, first>>
    /\ UNCHANGED <<cacheVars, pureVars, cmdVars>>

\* Loop iteration where index.FindPackage returns p: record it, enqueue its dependencies.
Explore ==
    /\ pc = "loop" /\ work # <<>>
    /\ LET d == Head(work) IN
       /\ NeedsPackage(buildDependencies, d)
       /\ \E have \in Holdings(present, d.Name) :
            LET pv == FindPackage(have, d.Version) IN
            /\ pv # Unspec
            /\ \E deps \in (IF <<d.Name, pv>> \in DOMAIN pdeps THEN {pdeps[<<d.Name, pv>>]}
                            ELSE Reveal(pdeps)) :
                 LET st == Enqueue(deps, 1, [visited |-> visited, work |-> Tail(work), enq |-> enq]) IN
                 /\ present' = Learn(present, d.Name, have, d.Version, pv)
                 /\ pdeps' = (<<d.Name, pv>> :> deps) @@ pdeps
                 /\ buildDependencies' = (d.Name :> NewNode(d.Name, pv, d, deps)) @@ buildDependencies
                 /\ explored' = explored \cup {[name |-> d.Name, asked |-> d.Version, found |-> pv]}
                 /\ visited' = st.visited
                 /\ work' = st.work
                 /\ enq' = st.enq
    /\ UNCHANGED <<base, pc, buildList, minimalList, err, failed, run, mode, first>>
    /\ UNCHANGED <<cacheVars, pureVars, cmdVars>>

\* work is empty: lines 112-210, compute the minimal list, sort and return both lists.
Finish ==
    /\ pc = "loop" /\ work = <<>>
    /\ \E order \in Orders(DOMAIN buildDependencies) :
         \E ws \in {walkAll(buildDependencies, order, 1, [cache |-> <<>>, unspecified |-> {}])} :
           \E md \in {minimalDependencies(base, buildDependencies, ws.unspecified)} :
             /\ buildList' = BuildListOf(buildDependencies, order)
             /\ minimalList' = MinimalListOf(md, order)
    /\ pc' = "done"
    /\ UNCHANGED <<present, pdeps, base, work, visited, buildDependencies, err,
                   explored, enq, failed, run, mode, first>>
    /\ UNCHANGED <<cacheVars, pureVars, cmdVars>>

\* A list as it is written to and read back from the manifest: names and versions.
RECURSIVE Manifest(_)
Manifest(list) ==
    IF list = <<>> THEN <<>>
    ELSE <<Req(Head(list).Name, Head(list).Version)>> \o Manifest(Tail(list))

Without(list, i) == SubSeq(list, 1, i - 1) \o SubSeq(list, i + 1, Len(list))

\* A second call MinimalVersionSelection(ctx, newbase, index) after the first returned.
StartRun(newbase, m) ==
    /\ pc = "done" /\ run = 1
    /\ first' = [names |-> {base[i].Name : i \in 1..Len(base)},
                 build |-> Manifest(buildList), minimal |-> Manifest(minimalList)]
    /\ base' = newbase
    /\ work' = newbase
    /\ visited' = {}
    /\ buildDependencies' = <<>>
    /\ pc' = "loop"
    /\ buildList' = <<>> /\ minimalList' = <<>>
    /\ explored' = {}
    /\ enq' = <<>>
    /\ run' = 2
    /\ mode' = m
    /\ UNCHANGED <<pdeps, err, failed>>
    /\ UNCHANGED <<cacheVars, pureVars, cmdVars>>

\* The run is repeated with the minimal list as base (verifyMinimalVersionSelection(t, index, minimal, ...)).
RerunMinimal ==
    /\ StartRun(Manifest(minimalList), "minimal")
    /\ UNCHANGED present

\* The run is repeated with the minimal list less one entry as base.
RerunSubset ==
    /\ \E i \in 1..Len(minimalList) : StartRun(Manifest(Without(minimalList, i)), "subset")
    /\ UNCHANGED present

\* A newer release w of a selected package is published, then the run is repeated
\* with the minimal list as base (TestVersionSelectionUnboundedReproduceable).
PublishRerun ==
    /\ \E n \in DOMAIN buildDependencies, w \in Versions :
         /\ w > buildDependencies[n].value.Version
         /\ <<n, w>> \in DOMAIN present => ~present[<<n, w>>]
         /\ present' = (<<n, w>> :> TRUE) @@ present
    /\ StartRun(Manifest(minimalList), "published")

\* One call of MinimalVersionSelection.
Next == Skip \/ ExploreFail \/ Explore \/ Finish

\* A call of MinimalVersionSelection and a second call on its results.
NextRerun == Skip \/ ExploreFail \/ Explore \/ Finish \/ RerunMinimal \/ RerunSubset \/ PublishRerun

Spec == Init /\ [][Next]_vars

\* The loop is sequential code: an iteration that can run does run.
LiveSpec == Init /\ [][Next]_vars /\ WF_vars(Next)

RerunSpec == Init /\ [][NextRerun]_vars

\* ------------------------------------------------------------------ wheels
\* Tag triples of a wheel filename; the environment supports the first only.
WheelTags == {"py3-none-any", "cp27-none-win32"}

\* A wheel as ParseWheelFilename builds it from <name>-<version>-<tags>.whl;
\* RequiresDist is nil.
Wheel(n, v, t) ==
    [name |-> n, version |-> v, tags |-> t,
     filename |-> n \o "-" \o Canonical(v) \o "-" \o t \o ".whl",
     RequiresDist |-> <<>>]

\* The wheels of package "a".
Wheels == {Wheel("a", v, t) : v \in Versions, t \in WheelTags}

\* A nil *Wheel.
NoWheel == [name |-> "", version |-> Unspec, tags |-> "", filename |-> "", RequiresDist |-> <<>>]

ParseWheelFilename(filename) == CHOOSE w \in Wheels : w.filename = filename

\* p.Preference(env) >= 0
Compatible(w) == w.tags = "py3-none-any"

\* The Requires-Dist rows of the METADATA file inside the archive with this
\* filename: the releases 1 of "a" require b, the other releases nothing.
METADATA(filename) ==
    IF ParseWheelFilename(filename).version = 1 THEN <<"b>=1">> ELSE <<>>

\* extractDependencies after fetch: the Requires-Dist rows are appended to p.RequiresDist.
extractDependencies(p) == [p EXCEPT !.RequiresDist = @ \o METADATA(p.filename)]

\* cacheIndex{Filename: w.filename, RequiresDist: w.RequiresDist}, one line of index.json.
cacheIndex(w) == [file |-> w.filename, requires_dist |-> w.RequiresDist]

\* ------------------------------------------------------------------- cache
\* The permission bits os.OpenFile is given when AddWheel creates index.json.
IndexPerm == 0

\* filepath.Join(c.getPath(name), filename)
getPath(filename) == "cache/a/" \o filename

\* os.Open / os.OpenFile of an existing file: the owner needs a permission bit,
\* a privileged process needs none.
CanOpen(ix, privileged) == privileged \/ ix.perm # 0

Found(whl) == [wheel |-> whl, Path |-> getPath(whl.filename), err |-> ""]

NotFound == [wheel |-> NoWheel, Path |-> "", err |-> ""]

Failed(e) == [wheel |-> NoWheel, Path |-> "", err |-> e]

\* The decoding loop of GetWheel: the first entry with an equal version and
\* compatible tags is returned, io.EOF gives nil, nil.
RECURSIVE scanIndex(_, _, _)
scanIndex(lines, i, v) ==
    IF i > Len(lines) THEN NotFound
    ELSE LET whl == [ParseWheelFilename(lines[i].file)
                        EXCEPT !.RequiresDist = lines[i].requires_dist] IN
         IF Equal(whl.version, v) /\ Compatible(whl) THEN Found(whl)
         ELSE scanIndex(lines, i + 1, v)

GetWheel(ix, privileged, v) ==
    IF Unspecified(v) THEN NotFound
    ELSE IF ~ix.exists THEN NotFound
    ELSE IF ~CanOpen(ix, privileged) THEN Failed("opening cache index: permission denied")
    ELSE scanIndex(ix.lines, 1, v)

\* strconv.ParseBool; its error is dropped, which leaves false.
ParseBool(str) == str \in {"1", "t", "T", "TRUE", "true", "True"}

\* Values of ROPE_CACHE_ONLY: unset, true values, a false value, not a boolean.
EnvValues == {"", "1", "true", "0", "yes"}

\* The cache is consulted whatever ROPE_CACHE_ONLY says and a miss is no error.
checkCache_IgnoresCacheOnly(ix, privileged, envValue, v) == GetWheel(ix, privileged, v)

checkCache(ix, privileged, envValue, v) ==
    LET g == GetWheel(ix, privileged, v) IN
    IF g.err # "" THEN g
    ELSE IF ParseBool(envValue) /\ g.wheel = NoWheel
         THEN Failed("package not found in cache (ROPE_CACHE_ONLY is set)")
    ELSE g

\* ---------------------------------------------------------------- download
HexDigits == "0123456789abcdef"

IsHex(c) == \E i \in 1..16 : SubSeq(HexDigits, i, i) = c

HexValue(c) == (CHOOSE i \in 1..16 : SubSeq(HexDigits, i, i) = c) - 1

\* hex.DecodeString: the bytes, or an error for an odd length or a non-hex character.
RECURSIVE DecodeString(_)
DecodeString(str) ==
    IF str = "" THEN [ok |-> TRUE, bytes |-> <<>>]
    ELSE IF Len(str) = 1 \/ ~IsHex(SubSeq(str, 1, 1)) \/ ~IsHex(SubSeq(str, 2, 2))
         THEN [ok |-> FALSE, bytes |-> <<>>]
    ELSE LET rest == DecodeString(SubSeq(str, 3, Len(str))) IN
         [ok |-> rest.ok,
          bytes |-> <<16 * HexValue(SubSeq(str, 1, 1)) + HexValue(SubSeq(str, 2, 2))>> \o rest.bytes]

\* values["sha256"] of the URL fragment: no such key, an empty value, a digest, not hex.
Fragments == {<<>>, <<"">>, <<"01">>, <<"zz">>}

\* hash.Sum(nil) of the downloaded bytes.
Digests == {<<1>>, <<2>>}

\* sum: nil without a sha256 value, else hex.DecodeString(values["sha256"][0]).
Decoded(sha256) ==
    IF sha256 = <<>> THEN [ok |-> TRUE, bytes |-> <<>>] ELSE DecodeString(sha256[1])

\* ioutil.TempFile("", p.filename + "-*"): the name ends in a string no other
\* temporary file has, here the number of the operation.
TempFile(filename, n) == "tmp/" \o filename \o "-" \o Decimal(n)

Frame(p, v, w, sha256, path) == [pc |-> p, v |-> v, w |-> w, sha256 |-> sha256, path |-> path]

Return(op, v, wheel, path, e) == [op |-> op, v |-> v, wheel |-> wheel, Path |-> path, err |-> e]

\* A wheel as the process that adds it holds it: found on a simple index page
\* (RequiresDist still nil when fetch calls AddWheel), or built from the JSON
\* index or from a source distribution (RequiresDist set before AddWheel).
Adding(w) == {w, extractDependencies(w)}

\* The caches a rope process can start with: empty, holding one wheel that an
\* earlier process added, or holding one wheel that two earlier processes added
\* at the same time (both missed the cache, both appended their entry).
Caches ==
    {[index |-> [exists |-> FALSE, perm |-> 0, lines |-> <<>>], dir |-> {}]}
    \cup UNION {{[index |-> [exists |-> TRUE, perm |-> IndexPerm, lines |-> <<cacheIndex(a)>>],
                  dir |-> {w.filename}] : a \in Adding(w)} : w \in Wheels}
    \cup UNION {{[index |-> [exists |-> TRUE, perm |-> IndexPerm,
                            lines |-> <<cacheIndex(a[1]), cacheIndex(a[2])>>],
                  dir |-> {w.filename}] : a \in Adding(w) \X Adding(w)} : w \in Wheels}

CacheInit ==
    /\ cacheOnlyEnv \in EnvValues
    /\ root \in BOOLEAN
    /\ \E c \in Caches : indexJson = c.index /\ cacheDir = c.dir
    /\ tempFiles = <<>>
    /\ rope = Idle /\ requests = 0
    /\ returned = Nothing /\ observed = Nothing /\ added = {} /\ ops = 0
    /\ MvsUnused /\ PureUnused /\ CmdUnused

\* Index.FindPackage up to the HTTP request: the cache answers, or the request is next.
FindPackageCheckCache ==
    /\ rope.pc = "idle" /\ ops < MaxOps
    /\ \E v \in Versions \cup {Unspec} :
         LET c == checkCache(indexJson, root, cacheOnlyEnv, v) IN
         IF c.err # "" \/ c.wheel # NoWheel
         THEN /\ returned' = Return("FindPackage", v, c.wheel, c.Path, c.err)
              /\ rope' = Idle
         ELSE /\ rope' = Frame("request", v, NoWheel, <<>>, "")
              /\ UNCHANGED returned
    /\ ops' = ops + 1
    /\ UNCHANGED <<cacheOnlyEnv, root, indexJson, cacheDir, tempFiles, requests, observed, added>>
    /\ UNCHANGED <<mvsVars, pureVars, cmdVars>>

\* The request fails, or the page holds no compatible package.
FindPackageRequestFail ==
    /\ rope.pc = "request"
    /\ requests' = requests + 1
    /\ \E e \in {ErrPackageNotFound, "compatible package not found"} :
         returned' = Return("FindPackage", rope.v, NoWheel, "", e)
    /\ rope' = Idle
    /\ UNCHANGED <<cacheOnlyEnv, root, indexJson, cacheDir, tempFiles, observed, added, ops>>
    /\ UNCHANGED <<mvsVars, pureVars, cmdVars>>

\* The request finds the wheel p: for an unspecified query the cache is asked for
\* p's version, then p.extractDependencies calls p.fetch.
FindPackageRequest ==
    /\ rope.pc = "request"
    /\ requests' = requests + 1
    /\ \E p \in {w \in Wheels : Compatible(w)}, sha256 \in Fragments :
         /\ Unspecified(rope.v) \/ Equal(p.version, rope.v)
         /\ LET c == IF Unspecified(rope.v)
                     THEN checkCache(indexJson, root, cacheOnlyEnv, p.version)
                     ELSE NotFound IN
            IF c.err # "" \/ c.wheel # NoWheel
            THEN /\ returned' = Return("FindPackage", rope.v, c.wheel, c.Path, c.err)
                 /\ rope' = Idle
            ELSE /\ rope' = Frame("fetch", rope.v, p, sha256, "")
                 /\ UNCHANGED returned
    /\ UNCHANGED <<cacheOnlyEnv, root, indexJson, cacheDir, tempFiles, observed, added, ops>>
    /\ UNCHANGED <<mvsVars, pureVars, cmdVars>>

\* Wheel.fetch up to the call of cache.AddWheel: the download fails, is rejected,
\* or is written to a temporary file that AddWheel is given.
fetch ==
    /\ rope.pc = "fetch"
    /\ requests' = requests + 1
    /\ LET path == TempFile(rope.w.filename, ops) IN
       \/ /\ returned' = Return("FindPackage", rope.v, NoWheel, "",
                                "extracting dependencies: failed HTTP request")
          /\ rope' = Idle
          /\ UNCHANGED tempFiles
       \/ /\ ~Decoded(rope.sha256).ok
          /\ returned' = Return("FindPackage", rope.v, NoWheel, "",
                                "extracting dependencies: sha256 checksum invalid hex")
          /\ rope' = Idle
          /\ tempFiles' = (path :> <<>>) @@ tempFiles
       \/ /\ Decoded(rope.sha256).ok
          /\ \E digest \in Digests :
               LET sum == Decoded(rope.sha256).bytes IN
               /\ tempFiles' = (path :> digest) @@ tempFiles
               /\ IF Len(sum) > 0 /\ sum # digest
                  THEN /\ returned' = Return("FindPackage", rope.v, NoWheel, "",
                                             "extracting dependencies: checksum mismatch")
                       /\ rope' = Idle
                  ELSE /\ rope' = Frame("AddWheel", rope.v, rope.w, rope.sha256, path)
                       /\ UNCHANGED returned
    /\ UNCHANGED <<cacheOnlyEnv, root, indexJson, cacheDir, observed, added, ops>>
    /\ UNCHANGED <<mvsVars, pureVars, cmdVars>>

\* AddWheel, lines 103-113: MkdirAll, then index.json is opened for appending and
\* created with IndexPerm when it does not exist.
AddWheelOpen ==
    /\ rope.pc = "AddWheel"
    /\ IF indexJson.exists /\ ~CanOpen(indexJson, root)
       THEN /\ returned' = Return("FindPackage", rope.v, NoWheel, "",
                                  "extracting dependencies: opening cache index: permission denied")
            /\ rope' = Idle
            /\ UNCHANGED indexJson
       ELSE /\ indexJson' = IF indexJson.exists THEN indexJson
                            ELSE [exists |-> TRUE, perm |-> IndexPerm, lines |-> <<>>]
            /\ rope' = [rope EXCEPT !.pc = "Encode"]
            /\ UNCHANGED returned
    /\ UNCHANGED <<cacheOnlyEnv, root, cacheDir, tempFiles, requests, observed, added, ops>>
    /\ UNCHANGED <<mvsVars, pureVars, cmdVars>>

\* AddWheel, lines 115-124: the entry is appended to index.json.
AddWheelEncode ==
    /\ rope.pc = "Encode"
    /\ indexJson' = [indexJson EXCEPT !.lines = Append(@, cacheIndex(rope.w))]
    /\ rope' = [rope EXCEPT !.pc = "Rename"]
    /\ UNCHANGED <<cacheOnlyEnv, root, cacheDir, tempFiles, requests, returned, observed, added, ops>>
    /\ UNCHANGED <<mvsVars, pureVars, cmdVars>>

\* AddWheel, lines 126-131: os.Rename moves the file, or fails (the temporary
\* directory is on another device); then fetch sets Path, extractDependencies
\* reads METADATA from the cached file and FindPackage returns p.
AddWheelRename ==
    /\ rope.pc = "Rename"
    /\ \/ /\ cacheDir' = cacheDir \cup {rope.w.filename}
          /\ tempFiles' = [f \in DOMAIN tempFiles \ {rope.path} |-> tempFiles[f]]
          /\ added' = added \cup {rope.w}
          /\ returned' = Return("FindPackage", rope.v, extractDependencies(rope.w),
                                getPath(rope.w.filename), "")
       \/ /\ returned' = Return("FindPackage", rope.v, NoWheel, "",
                                "extracting dependencies: moving item to cache")
          /\ UNCHANGED <<cacheDir, tempFiles, added>>
    /\ rope' = Idle
    /\ UNCHANGED <<cacheOnlyEnv, root, indexJson, requests, observed, ops>>
    /\ UNCHANGED <<mvsVars, pureVars, cmdVars>>

\* cache.GetWheel called by another rope process of the same user on the same cache.
OtherGetWheel ==
    /\ \E v \in Versions :
         LET g == GetWheel(indexJson, root, v) IN
         observed' = [op |-> "GetWheel", v |-> v, wheel |-> g.wheel, Path |-> g.Path,
                      err |-> g.err, added |-> added,
                      exists |-> g.wheel.filename \in cacheDir]
    /\ UNCHANGED <<cacheOnlyEnv, root, indexJson, cacheDir, tempFiles, rope, requests,
                   returned, added, ops>>
    /\ UNCHANGED <<mvsVars, pureVars, cmdVars>>

CacheNext ==
    \/ FindPackageCheckCache \/ FindPackageRequestFail \/ FindPackageRequest
    \/ fetch \/ AddWheelOpen \/ AddWheelEncode \/ AddWheelRename \/ OtherGetWheel

CacheSpec == CacheInit /\ [][CacheNext]_vars

\* -------------------------------------------------- version.Version, in full
\* The resolver and the cache above see a version through its single release
\* segment.  The functions of the version package are modelled on the whole
\* struct, parsed from and printed to Go strings.
ZeroVersion ==
    [Epoch |-> 0, ReleaseVersions |-> 0, Release |-> <<0, 0, 0, 0, 0, 0>>, Wildcard |-> FALSE,
     PreReleasePhase |-> 0, PreReleaseVersion |-> 0, PostRelease |-> FALSE,
     PostReleaseVersion |-> 0, DevRelease |-> FALSE, DevReleaseVersion |-> 0,
     LocalVersion |-> ""]

PrereleaseAlpha == -3
PrereleaseBeta == -2
PrereleaseCandidate == -1

\* str[i] as a string, "" past the end.
At(str, i) == IF i >= 1 /\ i <= Len(str) THEN SubSeq(str, i, i) ELSE ""

IsDigit(c) == c \in {"0", "1", "2", "3", "4", "5", "6", "7", "8", "9"}

DigitValue(c) == CHOOSE d \in 0..9 : Digit(d) = c

Letters == "abcdefghijklmnopqrstuvwxyz"

Capitals == "ABCDEFGHIJKLMNOPQRSTUVWXYZ"

IsLetter(c) == \E i \in 1..26 : SubSeq(Letters, i, i) = c

\* strings.ToLower
RECURSIVE ToLower(_)
ToLower(str) ==
    IF str = "" THEN ""
    ELSE LET c == SubSeq(str, 1, 1) IN
         (IF \E i \in 1..26 : SubSeq(Capitals, i, i) = c
          THEN SubSeq(Letters, CHOOSE i \in 1..26 : SubSeq(Capitals, i, i) = c,
                               CHOOSE i \in 1..26 : SubSeq(Capitals, i, i) = c)
          ELSE c) \o ToLower(SubSeq(str, 2, Len(str)))

\* [-_\.]
Separators == {"-", "_", "."}

\* The end of the run [0-9]* that starts at i.
RECURSIVE DigitsEnd(_, _)
DigitsEnd(str, i) == IF IsDigit(At(str, i)) THEN DigitsEnd(str, i + 1) ELSE i

\* strconv.Atoi of a string of digits ("" is never passed to it).
RECURSIVE Atoi(_)
Atoi(str) ==
    IF Len(str) = 1 THEN DigitValue(str)
    ELSE 10 * Atoi(SubSeq(str, 1, Len(str) - 1)) + DigitValue(SubSeq(str, Len(str), Len(str)))

HasPrefix(str, i, kw) == i + Len(kw) - 1 <= Len(str) /\ SubSeq(str, i, i + Len(kw) - 1) = kw

\* [-_\.]? is greedy; what follows it never starts with a separator.
SkipSep(str, i) == IF At(str, i) \in Separators THEN i + 1 ELSE i

\* The end of the release [0-9]+(?:\.(?:[0-9]+|\*$))* that starts at i; i when
\* no digit is there.
RECURSIVE ReleaseTail(_, _)
ReleaseTail(str, e) ==
    IF At(str, e) = "." /\ IsDigit(At(str, e + 1)) THEN ReleaseTail(str, DigitsEnd(str, e + 1))
    ELSE IF At(str, e) = "." /\ At(str, e + 1) = "*" /\ e + 1 = Len(str) THEN e + 2
    ELSE e

ReleaseEnd(str, i) == IF IsDigit(At(str, i)) THEN ReleaseTail(str, DigitsEnd(str, i)) ELSE i

\* (?P<local>[a-z0-9]+(?:[-_\.][a-z0-9]+)*) matches str[i..] whole; fresh says
\* that a letter or digit must come next.
RECURSIVE IsLocal(_, _, _)
IsLocal(str, i, fresh) ==
    IF i > Len(str) THEN ~fresh
    ELSE IF IsDigit(At(str, i)) \/ IsLetter(At(str, i)) THEN IsLocal(str, i + 1, FALSE)
    ELSE IF ~fresh /\ At(str, i) \in Separators THEN IsLocal(str, i + 1, TRUE)
    ELSE FALSE

\* The alternatives of pre_l, post_l and dev_l, in the order of the expression.
Keywords ==
    << <<"a", "b", "c", "rc", "alpha", "beta", "pre", "preview">>,
       <<"post", "rev", "r">>,
       <<"dev">> >>

NoMatch ==
    [ok |-> FALSE, epoch |-> "", release |-> "", l |-> <<"", "", "">>, n |-> <<"", "", "">>,
     post_n1 |-> "", local |-> ""]

\* The groups pre (g = 1), post (2), dev (3) and local (4) of the expression from
\* position i on, tried as regexp tries them: each group with its alternatives in
\* order and greedy parts first, then without the group.  m holds the submatches
\* so far; l[g] and n[g] are the label and the number of group g.
RECURSIVE matchFrom(_, _, _, _)
RECURSIVE matchKeyword(_, _, _, _, _)
matchFrom(g, str, i, m) ==
    IF g = 4
    THEN IF i > Len(str) THEN [m EXCEPT !.ok = TRUE]
         ELSE IF At(str, i) = "+" /\ IsLocal(str, i + 1, TRUE)
              THEN [m EXCEPT !.ok = TRUE, !.local = SubSeq(str, i + 1, Len(str))]
         ELSE NoMatch
    ELSE LET Labelled(labelled) == IF labelled.ok THEN labelled ELSE matchFrom(g + 1, str, i, m)
             Implicit(implicit) ==
                 Labelled(IF implicit.ok THEN implicit ELSE matchKeyword(g, 1, str, i, m))
             Digits(e) == matchFrom(3, str, e, [m EXCEPT !.post_n1 = SubSeq(str, i + 1, e - 1)])
         IN  Implicit(IF g = 2 /\ At(str, i) = "-" /\ IsDigit(At(str, i + 1))
                      THEN Digits(DigitsEnd(str, i + 1))
                      ELSE NoMatch)

matchKeyword(g, k, str, i, m) ==
    IF k > Len(Keywords[g]) THEN NoMatch
    ELSE LET Bare(e0, j2, bare) ==
                 IF j2 # e0 /\ bare.ok THEN bare ELSE matchKeyword(g, k + 1, str, i, m)
             Numbered(kw, e0, j2, numbered) ==
                 IF numbered.ok THEN numbered
                 ELSE Bare(e0, j2, matchFrom(g + 1, str, e0, [m EXCEPT !.l[g] = kw]))
             Numeral(kw, e0, j2, e) ==
                 Numbered(kw, e0, j2,
                          matchFrom(g + 1, str, e,
                                    [m EXCEPT !.l[g] = kw, !.n[g] = SubSeq(str, j2, e - 1)]))
             After(kw, e0, j2) == Numeral(kw, e0, j2, DigitsEnd(str, j2))
             Label(kw, j) ==
                 IF ~HasPrefix(str, j, kw) THEN matchKeyword(g, k + 1, str, i, m)
                 ELSE After(kw, j + Len(kw), SkipSep(str, j + Len(kw)))
         IN  Label(Keywords[g][k], SkipSep(str, i))

\* re.FindStringSubmatch: v?, the epoch [0-9]+!, the release, then the groups.
FindStringSubmatch(str) ==
    LET Groups(epoch, rs, re) ==
            IF re = rs THEN NoMatch
            ELSE matchFrom(1, str, re,
                           [NoMatch EXCEPT !.epoch = epoch, !.release = SubSeq(str, rs, re - 1)])
        Release(epoch, rs) == Groups(epoch, rs, ReleaseEnd(str, rs))
        Epoch(s0, d) ==
            IF d > s0 /\ At(str, d) = "!" THEN Release(SubSeq(str, s0, d - 1), d + 1)
            ELSE Release("", s0)
        Start(s0) == Epoch(s0, DigitsEnd(str, s0))
    IN  Start(IF At(str, 1) = "v" THEN 2 ELSE 1)

\* strings.Split(str, sep) for a one-character sep.
RECURSIVE Split(_, _, _)
Split(str, sep, i) ==
    IF i > Len(str) THEN <<str>>
    ELSE IF At(str, i) = sep
         THEN <<SubSeq(str, 1, i - 1)>> \o Split(SubSeq(str, i + 1, Len(str)), sep, 1)
    ELSE Split(str, sep, i + 1)

\* strings.LastIndex(str, sep) for a one-character sep, counted from 0; -1 without one.
RECURSIVE LastIndex(_, _, _)
LastIndex(str, sep, i) ==
    IF i = 0 THEN -1 ELSE IF At(str, i) = sep THEN i - 1 ELSE LastIndex(str, sep, i - 1)

\* The loop of Parse over the release segments, from segment i (counted from 1).
RECURSIVE parseRelease(_, _, _)
parseRelease(parts, i, v) ==
    IF i > Len(parts) THEN [valid |-> TRUE, version |-> v]
    ELSE IF i > 6 THEN [valid |-> FALSE, version |-> ZeroVersion]
    ELSE IF parts[i] = "*" THEN [valid |-> TRUE, version |-> [v EXCEPT !.Wildcard = TRUE]]
    ELSE parseRelease(parts, i + 1,
                      [v EXCEPT !.Release[i] = Atoi(parts[i]), !.ReleaseVersions = i])

Phase(label) ==
    IF label \in {"a", "alpha"} THEN PrereleaseAlpha
    ELSE IF label \in {"b", "beta"} THEN PrereleaseBeta
    ELSE IF label \in {"rc", "c", "pre", "preview"} THEN PrereleaseCandidate
    ELSE 0

Number(digits) == IF digits = "" THEN 0 ELSE Atoi(digits)

\* version.Parse: [valid, version].
Parse(input) ==
    LET Fields(m, rel) ==
            IF ~m.ok \/ ~rel.valid THEN [valid |-> FALSE, version |-> ZeroVersion]
            ELSE IF rel.version.Wildcard THEN rel
            ELSE [valid |-> TRUE,
                  version |-> [rel.version EXCEPT
                      !.PreReleasePhase = Phase(m.l[1]),
                      !.PreReleaseVersion = Number(m.n[1]),
                      !.PostRelease = m.l[2] # "",
                      !.PostReleaseVersion = IF m.l[2] # "" THEN Number(m.n[2]) ELSE 0,
                      !.DevRelease = m.l[3] # "",
                      !.DevReleaseVersion = IF m.l[3] # "" THEN Number(m.n[3]) ELSE 0,
                      !.LocalVersion = m.local]]
        Submatch(m) ==
            Fields(m, parseRelease(Split(m.release, ".", 1), 1,
                                   [ZeroVersion EXCEPT !.Epoch = Number(m.epoch)]))
    IN  Submatch(FindStringSubmatch(ToLower(input)))

\* v == Version{}
VersionUnspecified(v) == v = ZeroVersion

RECURSIVE releaseText(_, _)
releaseText(v, i) ==
    IF i > v.ReleaseVersions THEN ""
    ELSE (IF i > 1 THEN "." ELSE "") \o Decimal(v.Release[i]) \o releaseText(v, i + 1)

\* Version.Canonical
VersionCanonical(v) ==
    (IF v.Epoch > 0 THEN Decimal(v.Epoch) \o "!" ELSE "")
    \o releaseText(v, 1)
    \o (IF v.Wildcard THEN ".*"
        ELSE (IF v.PreReleasePhase = PrereleaseAlpha THEN "a" \o Decimal(v.PreReleaseVersion)
              ELSE IF v.PreReleasePhase = PrereleaseBeta THEN "b" \o Decimal(v.PreReleaseVersion)
              ELSE IF v.PreReleasePhase = PrereleaseCandidate THEN "rc" \o Decimal(v.PreReleaseVersion)
              ELSE "")
             \o (IF v.PostRelease THEN ".post" \o Decimal(v.PostReleaseVersion) ELSE "")
             \o (IF v.DevRelease THEN ".dev" \o Decimal(v.DevReleaseVersion) ELSE "")
             \o (IF v.LocalVersion # "" THEN "+" \o v.LocalVersion ELSE ""))

\* Version.String
VersionString(v) == IF VersionUnspecified(v) THEN "<latest>" ELSE VersionCanonical(v)

\* Version.Equal: every field but ReleaseVersions and Wildcard.
VersionEqual(v, v2) ==
    /\ v.Epoch = v2.Epoch /\ v.Release = v2.Release
    /\ v.PreReleasePhase = v2.PreReleasePhase /\ v.PreReleaseVersion = v2.PreReleaseVersion
    /\ v.PostRelease = v2.PostRelease /\ v.PostReleaseVersion = v2.PostReleaseVersion
    /\ v.DevRelease = v2.DevRelease /\ v.DevReleaseVersion = v2.DevReleaseVersion
    /\ v.LocalVersion = v2.LocalVersion

\* Version.Match
Match(v, v2) ==
    IF v.Epoch # v2.Epoch THEN FALSE
    ELSE IF \E i \in 1..6 : v.Release[i] # v2.Release[i] THEN FALSE
    ELSE IF v.Wildcard \/ v2.Wildcard THEN TRUE
    ELSE IF v.PreReleasePhase # v2.PreReleasePhase THEN FALSE
    ELSE IF v.PreReleaseVersion # v2.PreReleaseVersion THEN FALSE
    ELSE IF v.DevRelease # v2.DevRelease THEN FALSE
    ELSE IF v.DevReleaseVersion # v2.DevReleaseVersion THEN FALSE
    ELSE TRUE

Order(x, y) == IF x > y THEN 1 ELSE IF x < y THEN -1 ELSE 0

\* The loop of compare over the six release slots.
RECURSIVE compareRelease(_, _, _)
compareRelease(a, b, i) ==
    IF i > 6 THEN 0
    ELSE IF Order(a.Release[i], b.Release[i]) # 0 THEN Order(a.Release[i], b.Release[i])
    ELSE compareRelease(a, b, i + 1)

\* compare with a one-sided test of the dev flag: a final release is greater than
\* a dev release, a dev release is not less than a final release.
compare_DevOneSided(a, b) ==
    IF Order(a.Epoch, b.Epoch) # 0 THEN Order(a.Epoch, b.Epoch)
    ELSE IF compareRelease(a, b, 1) # 0 THEN compareRelease(a, b, 1)
    ELSE IF a.Wildcard \/ b.Wildcard THEN 0
    ELSE IF Order(a.PreReleasePhase, b.PreReleasePhase) # 0
         THEN Order(a.PreReleasePhase, b.PreReleasePhase)
    ELSE IF Order(a.PreReleaseVersion, b.PreReleaseVersion) # 0
         THEN Order(a.PreReleaseVersion, b.PreReleaseVersion)
    ELSE IF Order(a.PostReleaseVersion, b.PostReleaseVersion) # 0
         THEN Order(a.PostReleaseVersion, b.PostReleaseVersion)
    ELSE IF ~a.DevRelease /\ b.DevRelease THEN 1
    ELSE Order(a.DevReleaseVersion, b.DevReleaseVersion)

\* The closure compare of Compare.
compare(a, b) ==
    IF Order(a.Epoch, b.Epoch) # 0 THEN Order(a.Epoch, b.Epoch)
    ELSE IF compareRelease(a, b, 1) # 0 THEN compareRelease(a, b, 1)
    ELSE IF a.Wildcard \/ b.Wildcard THEN 0
    ELSE IF Order(a.PreReleasePhase, b.PreReleasePhase) # 0
         THEN Order(a.PreReleasePhase, b.PreReleasePhase)
    ELSE IF Order(a.PreReleaseVersion, b.PreReleaseVersion) # 0
         THEN Order(a.PreReleaseVersion, b.PreReleaseVersion)
    ELSE IF Order(a.PostReleaseVersion, b.PostReleaseVersion) # 0
         THEN Order(a.PostReleaseVersion, b.PostReleaseVersion)
    ELSE IF ~a.DevRelease /\ b.DevRelease THEN 1
    ELSE IF a.DevRelease /\ ~b.DevRelease THEN -1
    ELSE Order(a.DevReleaseVersion, b.DevReleaseVersion)

\* version.Compare: panics when compare(b, a) is not -1 * compare(a, b).
VersionCompare(a, b) ==
    IF compare(b, a) # -1 * compare(a, b) THEN [panic |-> TRUE, value |-> 0]
    ELSE [panic |-> FALSE, value |-> compare(a, b)]

\* Version.GreaterThan
VersionGreaterThan(v, v2) == VersionCompare(v, v2).value = 1

\* A requirement of a dependency specification: an operator and a version.
Requirement(op, v) == [Operator |-> op, Version |-> v]

LowerBoundOperators == {">=", "~=", "==", "==="}

\* The loop of Minimal from requirement i, with highestLowerBound so far.
RECURSIVE minimalLoop(_, _, _)
minimalLoop(vrs, i, highestLowerBound) ==
    IF i > Len(vrs) THEN highestLowerBound
    ELSE minimalLoop(vrs, i + 1,
                     IF /\ vrs[i].Operator \in LowerBoundOperators
                        /\ VersionGreaterThan(vrs[i].Version, highestLowerBound)
                     THEN vrs[i].Version
                     ELSE highestLowerBound)

\* version.Minimal
Minimal(vrs) == IF Len(vrs) = 0 THEN ZeroVersion ELSE minimalLoop(vrs, 1, ZeroVersion)

\* ---------------------------------------------------------------- manifest
\* regexp [-_.]+ replaced by "-", then strings.ToLower.
RECURSIVE replaceRuns(_, _)
replaceRuns(str, i) ==
    IF i > Len(str) THEN ""
    ELSE IF At(str, i) \in Separators
         THEN (IF At(str, i - 1) \in Separators THEN "" ELSE "-") \o replaceRuns(str, i + 1)
    ELSE At(str, i) \o replaceRuns(str, i + 1)

NormalizePackageName(name) == ToLower(replaceRuns(name, 1))

\* Dependency.MarshalJSON: the JSON string "<name>-<version>", or an error.
MarshalJSON(d) ==
    IF VersionUnspecified(d.Version)
    THEN [b |-> "", err |-> "marshaling unspecified version for '" \o d.Name \o "'"]
    ELSE [b |-> d.Name \o "-" \o VersionString(d.Version), err |-> ""]

\* Dependency.UnmarshalJSON: the string is split at the last "-".
UnmarshalJSON(b) ==
    LET sep == LastIndex(b, "-", Len(b))
        parsed == Parse(SubSeq(b, sep + 2, Len(b)))
    IN  IF sep < 0
        THEN [d |-> [Name |-> "", Version |-> ZeroVersion],
              err |-> "expected dependency to be in the form of <name>-<version>"]
        ELSE IF ~parsed.valid
             THEN [d |-> [Name |-> NormalizePackageName(SubSeq(b, 1, sep)), Version |-> ZeroVersion],
                   err |-> "invalid version"]
        ELSE [d |-> [Name |-> NormalizePackageName(SubSeq(b, 1, sep)), Version |-> parsed.version],
              err |-> ""]

\* ------------------------------------------------------- dependency parser
\* The characters of dependency specifications, in byte order.
Bytes == " !\"'()*+,-.0123456789;<=>ABCDEFGHIJKLMNOPQRSTUVWXYZ[]_abcdefghijklmnopqrstuvwxyz~"

Ord(c) == CHOOSE i \in 1..Len(Bytes) : SubSeq(Bytes, i, i) = c

\* Go's < on strings: byte-wise lexicographic.
RECURSIVE StringLess(_, _)
StringLess(a, b) ==
    IF b = "" THEN FALSE
    ELSE IF a = "" THEN TRUE
    ELSE IF At(a, 1) = At(b, 1) THEN StringLess(SubSeq(a, 2, Len(a)), SubSeq(b, 2, Len(b)))
    ELSE Ord(At(a, 1)) < Ord(At(b, 1))

\* strings.Contains
stringsContains(str, substr) == \E i \in 1..Len(str) + 1 : HasPrefix(str, i, substr)

IsCapital(c) == \E i \in 1..26 : SubSeq(Capitals, i, i) = c

\* parser.skipWhitespace: the position after the blanks and tabs at pos.
RECURSIVE skipWhitespace(_, _)
skipWhitespace(str, pos) ==
    IF At(str, pos) \in {" ", "\t"} THEN skipWhitespace(str, pos + 1) ELSE pos

\* parser.expect: the first string of ss that the input continues with, or "".
expect(str, pos, ss) ==
    LET hits == {k \in 1..Len(ss) : HasPrefix(str, pos, ss[k])}
    IN  IF hits = {} THEN "" ELSE ss[CHOOSE k \in hits : \A j \in hits : k <= j]

\* parser.peek
peek(str, pos, ss) == \E k \in 1..Len(ss) : HasPrefix(str, pos, ss[k])

identifier(c, i) ==
    c # "" /\ (IsLetter(c) \/ IsCapital(c) \/ IsDigit(c) \/ (i > 0 /\ c \in {"-", "_", "."}))

\* parser.expectFunc(identifier): the end of the identifier that starts at start.
RECURSIVE IdentifierEnd(_, _, _)
IdentifierEnd(str, start, pos) ==
    IF identifier(At(str, pos), pos - start) THEN IdentifierEnd(str, start, pos + 1) ELSE pos

\* The two quotes of a literal.
Quotes == {"'", "\""}

\* The comparisons of marker expressions.
MarkerAtoms ==
    {"(python_version < \"3.10\")", "os_name in 'nt'", "extra == \"test\"", "os_name ~= \"posix\""}

\* The punctuation of isPythonString, the backquote excepted: no specification
\* below contains one.
Punctuation ==
    {" ", "\t", "(", ")", ".", "{", "}", "-", "_", "*", "#", ":", ";", ",", "/", "?", "[",
     "]", "!", "~", "@", "$", "%", "^", "&", "=", "+", "|", "<", ">"}

isPythonString(c) == c \in Punctuation \/ IsLetter(c) \/ IsCapital(c) \/ IsDigit(c)

\* parser.expectFunc inside a literal opened by quote: the other quote is allowed.
RECURSIVE LiteralEnd(_, _, _)
LiteralEnd(str, pos, quote) ==
    IF isPythonString(At(str, pos)) \/ (At(str, pos) \in Quotes /\ At(str, pos) # quote)
    THEN LiteralEnd(str, pos + 1, quote)
    ELSE pos

isVersion(c) ==
    c # "" /\ (IsLetter(c) \/ IsCapital(c) \/ IsDigit(c) \/ c \in {"-", "_", ".", "*", "+", "!"})

RECURSIVE VersionEnd(_, _)
VersionEnd(str, pos) == IF isVersion(At(str, pos)) THEN VersionEnd(str, pos + 1) ELSE pos

envVars ==
    <<"os_name", "sys_platform", "platform_machine", "platform_python_implementation",
      "platform_release", "platform_system", "platform_version", "python_version",
      "python_full_version", "implementation_name", "implementation_version", "extra">>

comparisonOps == <<"<=", "<", "==", "!=", ">=", ">", "~=", "===">>

\* What a parsing function returns: the position reached and the value, or an error.
Parsed(pos, val) == [ok |-> TRUE, pos |-> pos, val |-> val]

ParseError(pos) == [ok |-> FALSE, pos |-> pos, val |-> <<>>]

NoExpr == [kind |-> "nil"]

\* Each step below hands what it has read to the next one.
versionRequirement(str, pos0) ==
    LET Checked(op, end, parsed) ==
            IF ~parsed.valid THEN ParseError(end) ELSE Parsed(end, Requirement(op, parsed.version))
        Version(op, start, end) ==
            IF end = start THEN ParseError(start)
            ELSE Checked(op, end, Parse(SubSeq(str, start, end - 1)))
        Operator(pos, op) ==
            IF op = "" THEN ParseError(pos)
            ELSE LET Start(start) == Version(op, start, VersionEnd(str, start))
                 IN  Start(skipWhitespace(str, pos + Len(op)))
        Begin(pos) == Operator(pos, expect(str, pos, comparisonOps))
    IN  Begin(skipWhitespace(str, pos0))

RECURSIVE versionRequirements(_, _, _)
versionRequirements(str, pos, vrs) ==
    LET Rest(list, next) ==
            IF At(str, next) = "," THEN versionRequirements(str, next + 1, list)
            ELSE IF peek(str, next, comparisonOps) THEN versionRequirements(str, next, list)
            ELSE Parsed(next, list)
        One(vr) == IF ~vr.ok THEN vr ELSE Rest(Append(vrs, vr.val), skipWhitespace(str, vr.pos))
    IN  One(versionRequirement(str, pos))

\* extras, after the '[' is consumed.
RECURSIVE extras(_, _, _)
extras(str, pos, acc) ==
    LET Rest(list, next) ==
            IF At(str, next) = "]" THEN Parsed(next + 1, list)
            ELSE IF At(str, next) = "," THEN extras(str, next + 1, list)
            ELSE extras(str, next, list)
        Extra(start, end) ==
            IF end = start THEN ParseError(start)
            ELSE Rest(Append(acc, SubSeq(str, start, end - 1)), skipWhitespace(str, end))
        Begin(start) == Extra(start, IdentifierEnd(str, start, start))
    IN  Begin(skipWhitespace(str, pos))

environmentMarker(str, pos0) ==
    LET Literal(pos, r, end) ==
            IF At(str, end) # r THEN ParseError(end)
            ELSE Parsed(end + 1, [value |-> SubSeq(str, pos + 1, end - 1), env |-> FALSE])
        Variable(pos, env) ==
            IF env = "" THEN ParseError(pos) ELSE Parsed(pos + Len(env), [value |-> env, env |-> TRUE])
        Begin(pos, r) ==
            IF r \in Quotes THEN Literal(pos, r, LiteralEnd(str, pos + 1, r))
            ELSE Variable(pos, expect(str, pos, envVars))
        Blanks(pos) == Begin(pos, At(str, pos))
    IN  Blanks(skipWhitespace(str, pos0))

\* exprAnd or exprOr of prev and term; term itself when there is no prev.
Combine(kind, prev, term) ==
    IF prev.kind # "nil" THEN [kind |-> kind, left |-> prev, right |-> term] ELSE term

RECURSIVE environmentMarkerExpression(_, _)
RECURSIVE environmentMarkersConjunction(_, _, _)
RECURSIVE environmentMarkersDisjunction(_, _, _)

environmentMarkerExpression(str, pos0) ==
    LET Close(e, close) ==
            IF At(str, close) # ")" THEN ParseError(close) ELSE Parsed(close + 1, e.val)
        Group(e) == IF ~e.ok THEN e ELSE Close(e, skipWhitespace(str, e.pos))
        Right(left, op, right) ==
            IF ~right.ok THEN right
            ELSE Parsed(right.pos, [kind |-> "marker", op |-> op, left |-> left.val, right |-> right.val])
        Operator(left, opPos, op) ==
            IF op = "" THEN ParseError(opPos)
            ELSE Right(left, op, environmentMarker(str, opPos + Len(op)))
        Blanks(left, opPos) ==
            Operator(left, opPos, expect(str, opPos, comparisonOps \o <<"in", "not in">>))
        Left(left) == IF ~left.ok THEN left ELSE Blanks(left, skipWhitespace(str, left.pos))
        Begin(pos) ==
            IF At(str, pos) = "(" THEN Group(environmentMarkersDisjunction(str, pos + 1, NoExpr))
            ELSE Left(environmentMarker(str, pos))
    IN  Begin(skipWhitespace(str, pos0))

\* A series of expressions separated by 'and'.
environmentMarkersConjunction(str, pos, prev) ==
    LET Rest(term, next) ==
            IF HasPrefix(str, next, "and") THEN environmentMarkersConjunction(str, next + 3, term)
            ELSE Parsed(next, term)
        Term(t) == IF ~t.ok THEN t ELSE Rest(Combine("and", prev, t.val), skipWhitespace(str, t.pos))
    IN  Term(environmentMarkerExpression(str, pos))

\* A series of conjunctions separated by 'or'.
environmentMarkersDisjunction(str, pos, prev) ==
    LET Rest(term, next) ==
            IF HasPrefix(str, next, "or") THEN environmentMarkersDisjunction(str, next + 2, term)
            ELSE Parsed(next, term)
        Term(t) == IF ~t.ok THEN t ELSE Rest(Combine("or", prev, t.val), skipWhitespace(str, t.pos))
    IN  Term(environmentMarkersConjunction(str, pos, NoExpr))

\* The expressions that follow each ';'.
RECURSIVE environmentMarkers(_, _, _)
environmentMarkers(str, pos0, e) ==
    LET Expression(expr) ==
            IF ~expr.ok THEN expr ELSE environmentMarkers(str, expr.pos, Append(e, expr.val))
        Begin(pos) ==
            IF At(str, pos) # ";" THEN Parsed(pos, e)
            ELSE Expression(environmentMarkersDisjunction(str, pos + 1, NoExpr))
    IN  Begin(skipWhitespace(str, pos0))

ParseDependency(input) ==
    LET End(d, pos) == IF At(input, pos) # "" THEN ParseError(pos) ELSE Parsed(pos, d)
        Markers(d, expr) ==
            IF ~expr.ok THEN expr
            ELSE End([d EXCEPT !.expr = expr.val], skipWhitespace(input, expr.pos))
        AfterVersions(d, pos) ==
            IF At(input, pos) = ";" THEN Markers(d, environmentMarkers(input, pos, <<>>))
            ELSE End(d, pos)
        Ranges(d, paren, vrs) ==
            IF ~vrs.ok THEN vrs
            ELSE IF paren /\ At(input, vrs.pos) # ")" THEN ParseError(vrs.pos)
            ELSE AfterVersions([d EXCEPT !.Versions = vrs.val],
                               skipWhitespace(input, IF paren THEN vrs.pos + 1 ELSE vrs.pos))
        AfterExtras(d, pos, r, versions) ==
            IF ~versions /\ r = "@" THEN ParseError(pos)
            ELSE IF ~versions /\ r = "" THEN Parsed(pos, d)
            ELSE Ranges(d, r = "(",
                        IF versions
                        THEN versionRequirements(input, IF r = "(" THEN pos + 1 ELSE pos, <<>>)
                        ELSE Parsed(pos, <<>>))
        Blanks(d, pos) ==
            AfterExtras(d, pos, At(input, pos),
                        At(input, pos) = "(" \/ peek(input, pos, comparisonOps))
        Extras(d, ex) ==
            IF ~ex.ok THEN ex ELSE Blanks([d EXCEPT !.Extras = ex.val], skipWhitespace(input, ex.pos))
        AfterName(d, pos) ==
            Extras(d, IF At(input, pos) = "[" THEN extras(input, pos + 1, <<>>) ELSE Parsed(pos, <<>>))
        Name(start, end) ==
            IF end = start THEN ParseError(start)
            ELSE AfterName([Name |-> SubSeq(input, start, end - 1), Versions |-> <<>>,
                            Extras |-> <<>>, expr |-> <<>>],
                           skipWhitespace(input, end))
        Begin(start) == Name(start, IdentifierEnd(input, start, start))
    IN  Begin(skipWhitespace(input, 1))

\* ------------------------------------------------------ marker evaluation
\* testEnvironment.Get: the value of a variable, or an error.
Get(env, k) ==
    IF k \in DOMAIN env THEN [value |-> env[k], err |-> ""]
    ELSE [value |-> "", err |-> "unknown environment variable: " \o k]

Result(v, e) == [value |-> v, err |-> e]

\* The comparison of two valid versions.
compareVersions(op, c) ==
    IF c.panic THEN Result(FALSE, "panic")
    ELSE IF op = "<=" THEN Result(c.value <= 0, "")
    ELSE IF op = "<" THEN Result(c.value < 0, "")
    ELSE IF op = "!=" THEN Result(c.value # 0, "")
    ELSE IF op = "==" THEN Result(c.value = 0, "")
    ELSE IF op = ">=" THEN Result(c.value >= 0, "")
    ELSE IF op = ">" THEN Result(c.value > 0, "")
    ELSE IF op = "~=" THEN Result(FALSE, "")
    ELSE Result(FALSE, "unsupported version comparison operator")

\* The comparison of two strings of which one is no version.
compareStrings(op, left, right) ==
    IF op = "<=" THEN Result(~StringLess(right, left), "")
    ELSE IF op = "<" THEN Result(StringLess(left, right), "")
    ELSE IF op = "!=" THEN Result(left # right, "")
    ELSE IF op = "==" THEN Result(left = right, "")
    ELSE IF op = ">=" THEN Result(~StringLess(left, right), "")
    ELSE IF op = ">" THEN Result(StringLess(right, left), "")
    ELSE IF op = "~=" THEN Result(FALSE, "~= only supported for valid versions")
    ELSE Result(FALSE, "unsupported string comparison operator")

exprMarkerEvaluate(e, env) ==
    LET Ranges(left, right, leftVersion, rightVersion) ==
            IF leftVersion.valid /\ rightVersion.valid
            THEN compareVersions(e.op, VersionCompare(leftVersion.version, rightVersion.version))
            ELSE compareStrings(e.op, left, right)
        Values(left, right) ==
            IF e.op = "in" THEN Result(stringsContains(left, right), "")
            ELSE IF e.op = "not in" THEN Result(~stringsContains(left, right), "")
            ELSE IF e.op = "===" THEN Result(left = right, "")
            ELSE Ranges(left, right, Parse(left), Parse(right))
        Sides(l, r) ==
            IF l.err # "" THEN Result(FALSE, l.err)
            ELSE IF r.err # "" THEN Result(FALSE, r.err)
            ELSE Values(l.value, r.value)
    IN  Sides(IF e.left.env THEN Get(env, e.left.value) ELSE [value |-> e.left.value, err |-> ""],
              IF e.right.env THEN Get(env, e.right.value) ELSE [value |-> e.right.value, err |-> ""])

RECURSIVE Evaluate(_, _)

\* exprOr.Evaluate with the results combined by && instead of ||.
Evaluate_OrAsAnd(e, env) ==
    LET Both(left, right) ==
            IF left.err # "" THEN Result(FALSE, left.err)
            ELSE IF e.kind = "and" /\ ~left.value THEN Result(FALSE, "")
            ELSE IF right.err # "" THEN Result(FALSE, right.err)
            ELSE Result(left.value /\ right.value, "")
    IN  IF e.kind = "marker" THEN exprMarkerEvaluate(e, env)
        ELSE Both(Evaluate(e.left, env), Evaluate(e.right, env))

\* Expr.Evaluate of exprMarker, exprOr (both sides are evaluated) and exprAnd
\* (the right side is evaluated only when the left side is true).
Evaluate(e, env) ==
    LET Both(left, right) ==
            IF left.err # "" THEN Result(FALSE, left.err)
            ELSE IF e.kind = "and" /\ ~left.value THEN Result(FALSE, "")
            ELSE IF right.err # "" THEN Result(FALSE, right.err)
            ELSE IF e.kind = "or" THEN Result(left.value \/ right.value, "")
            ELSE Result(right.value, "")
    IN  IF e.kind = "marker" THEN exprMarkerEvaluate(e, env)
        ELSE Both(Evaluate(e.left, env), Evaluate(e.right, env))

\* The loop over d.expr: the first error or false expression ends it.
RECURSIVE evaluateAll(_, _, _)
evaluateAll(expr, i, env) ==
    LET Sub(r) ==
            IF r.err # "" THEN Result(FALSE, r.err)
            ELSE IF ~r.value THEN Result(FALSE, "")
            ELSE evaluateAll(expr, i + 1, env)
    IN  IF i > Len(expr) THEN Result(TRUE, "") ELSE Sub(Evaluate(expr[i], env))

DependencyEvaluate(d, env) ==
    LET matchingExtra ==
            Len(d.Extras) = 0 \/ \E i \in 1..Len(d.Extras) : d.Extras[i] = Get(env, "extra").value
    IN  IF ~matchingExtra THEN Result(FALSE, "") ELSE evaluateAll(d.expr, 1, env)

\* ------------------------------------------------------- Wheel.Dependencies
\* The package-level env the wheel code evaluates markers against.
environment == [python_version |-> "3.6", os_name |-> "posix"]

\* for _, row := range p.RequiresDist: a row that does not parse, whose markers
\* fail or are false is left out; the others give the name and Minimal(dep.Versions).
RECURSIVE dependenciesFrom(_, _)
dependenciesFrom(rows, i) ==
    LET Install(d, install) ==
            IF install.err # "" \/ ~install.value THEN <<>>
            ELSE <<[Name |-> NormalizePackageName(d.Name), Version |-> Minimal(d.Versions)]>>
        Row(dep) ==
            IF ~dep.ok THEN <<>> ELSE Install(dep.val, DependencyEvaluate(dep.val, environment))
    IN  IF i > Len(rows) THEN <<>>
        ELSE Row(ParseDependency(rows[i])) \o dependenciesFrom(rows, i + 1)

Dependencies(p) == dependenciesFrom(p.RequiresDist, 1)

\* ------------------------------------------------------- simple index page
HasSuffix(str, suffix) ==
    Len(str) >= Len(suffix) /\ SubSeq(str, Len(str) - Len(suffix) + 1, Len(str)) = suffix

TrimSuffix(str, suffix) ==
    IF HasSuffix(str, suffix) THEN SubSeq(str, 1, Len(str) - Len(suffix)) ELSE str

\* env.Priority(tag): the more specific tag has the higher number; a tag the
\* environment does not accept has none.
Priority(tag) ==
    IF tag = "cp36-abi3-linux" THEN 1 ELSE IF tag = "py3-none-any" THEN 0 ELSE -1

\* Wheel.Preference: the loop over p.tags, from tag i with the maximum so far.
RECURSIVE PreferenceFrom(_, _, _)
PreferenceFrom(tags, i, min) ==
    IF i > Len(tags) THEN min
    ELSE PreferenceFrom(tags, i + 1, IF Priority(tags[i]) > min THEN Priority(tags[i]) ELSE min)

Preference(p) == PreferenceFrom(p.tags, 1, -1)

NoPackage == [kind |-> "nil", filename |-> "", version |-> ZeroVersion, tags |-> <<>>]

\* The tag triples of a wheel filename expanded: interpreters, then abis, then platforms.
ExpandTags(is, as, ps) ==
    [k \in 1..(Len(is) * Len(as) * Len(ps)) |->
        is[((k - 1) \div (Len(as) * Len(ps))) + 1] \o "-"
            \o as[(((k - 1) \div Len(ps)) % Len(as)) + 1] \o "-"
            \o ps[((k - 1) % Len(ps)) + 1]]

\* ParseWheelFilename on the text of the filename: [ok, p].
ParseWheel(filename) ==
    LET Built(split, v) ==
            IF ~v.valid THEN [ok |-> FALSE, p |-> NoPackage]
            ELSE [ok |-> TRUE,
                  p |-> [kind |-> "wheel", filename |-> filename, version |-> v.version,
                         tags |-> ExpandTags(Split(split[Len(split) - 2], ".", 1),
                                             Split(split[Len(split) - 1], ".", 1),
                                             Split(split[Len(split)], ".", 1))]]
        Parts(split) ==
            IF Len(split) < 5 \/ Len(split) > 6 THEN [ok |-> FALSE, p |-> NoPackage]
            ELSE Built(split, Parse(split[2]))
    IN  IF ~HasSuffix(filename, ".whl") THEN [ok |-> FALSE, p |-> NoPackage]
        ELSE Parts(Split(TrimSuffix(filename, ".whl"), "-", 1))

sourceDistributionSuffix(filename) ==
    IF HasSuffix(filename, ".tar.gz") THEN ".tar.gz"
    ELSE IF HasSuffix(filename, ".zip") THEN ".zip"
    ELSE IF HasSuffix(filename, ".tar.bz2") THEN ".tar.bz2"
    ELSE IF HasSuffix(filename, ".tgz") THEN ".tgz"
    ELSE ""

\* ParseSdistFilename: the version is what follows the last "-", less the suffix.
ParseSdistFilename(filename, suffix) ==
    LET Built(v) ==
            IF ~v.valid THEN [ok |-> FALSE, p |-> NoPackage]
            ELSE [ok |-> TRUE,
                  p |-> [kind |-> "sdist", filename |-> filename, version |-> v.version,
                         tags |-> <<>>]]
        From(sep, trimmed) ==
            IF sep < 0 THEN [ok |-> FALSE, p |-> NoPackage]
            ELSE Built(Parse(SubSeq(trimmed, sep + 2, Len(trimmed))))
    IN  From(LastIndex(filename, "-", Len(filename)), TrimSuffix(filename, suffix))

\* Index.checkCompatability of the filename of an href: [ok, p].
checkCompatability(filename) ==
    LET WheelOf(w) ==
            IF ~w.ok THEN w
            ELSE IF Preference(w.p) < 0 THEN [ok |-> FALSE, p |-> NoPackage]
            ELSE w
        SdistOf(suffix) ==
            IF suffix # "" THEN ParseSdistFilename(filename, suffix)
            ELSE [ok |-> FALSE, p |-> NoPackage]
    IN  IF HasSuffix(filename, ".whl") THEN WheelOf(ParseWheel(filename))
        ELSE SdistOf(sourceDistributionSuffix(filename))

\* preferred with > for two wheels: the first of the equally preferred is kept.
preferred_FirstOfEqual(a, b) ==
    IF a.kind = "wheel" /\ b.kind # "wheel" THEN TRUE
    ELSE IF a.kind # "wheel" /\ b.kind = "wheel" THEN FALSE
    ELSE IF a.kind # "wheel" /\ b.kind # "wheel" THEN TRUE
    ELSE Preference(a) > Preference(b)

\* preferred(a, b): a should be preferred to b.
preferred(a, b) ==
    IF a.kind = "wheel" /\ b.kind # "wheel" THEN TRUE
    ELSE IF a.kind # "wheel" /\ b.kind = "wheel" THEN FALSE
    ELSE IF a.kind # "wheel" /\ b.kind # "wheel" THEN TRUE
    ELSE Preference(a) >= Preference(b)

\* The loop of selectPrefered from packages[i], with p the preferred so far.
RECURSIVE selectFrom(_, _, _)
selectFrom(packages, i, p) ==
    IF i > Len(packages) THEN p
    ELSE selectFrom(packages, i + 1, IF preferred(packages[i], p) THEN packages[i] ELSE p)

selectPrefered(packages) == selectFrom(packages, 2, packages[1])

\* The loop of Index.FindPackage over the <a> elements of the page, from element
\* i: [foundPackages, foundVersion] when the loop ends or breaks.
RECURSIVE scanPage(_, _, _, _, _)
scanPage(page, i, v, foundPackages, foundVersion) ==
    LET Element(c) ==
            IF ~c.ok THEN scanPage(page, i + 1, v, foundPackages, foundVersion)
            ELSE IF VersionUnspecified(v)
                 THEN scanPage(page, i + 1, v,
                               IF ~VersionUnspecified(foundVersion)
                                    /\ VersionGreaterThan(c.p.version, foundVersion)
                               THEN <<c.p>> ELSE Append(foundPackages, c.p),
                               c.p.version)
            ELSE IF Match(c.p.version, v)
                 THEN scanPage(page, i + 1, v, Append(foundPackages, c.p), foundVersion)
            ELSE IF ~VersionUnspecified(foundVersion) THEN foundPackages
            ELSE scanPage(page, i + 1, v, foundPackages, foundVersion)
    IN  IF i > Len(page) THEN foundPackages ELSE Element(checkCompatability(page[i]))

\* Index.FindPackage between the response and the second look at the cache:
\* the candidates of the page and the preferred of them.
pageFindPackage(page, v) ==
    LET Selected(foundPackages) ==
            IF Len(foundPackages) = 0
            THEN [err |-> "compatible package not found", p |-> NoPackage,
                  foundPackages |-> foundPackages]
            ELSE [err |-> "", p |-> selectPrefered(foundPackages),
                  foundPackages |-> foundPackages]
    IN  Selected(scanPage(page, 1, v, <<>>, ZeroVersion))

\* ---------------------------------------------------------------- JSON index
\* env.SatisfiesPythonVersion(requires_python) for the interpreter 3.6: no
\* requirement is satisfied, a requirement of a later interpreter is not.
SatisfiesPythonVersion(requiresPython) == requiresPython # ">=3.9"

\* The insertion sort of sort.Slice on a short slice: x moves left while less(x, previous).
RECURSIVE insertVersion(_, _)
insertVersion(sorted, x) ==
    IF sorted = <<>> THEN <<x>>
    ELSE IF VersionCompare(x, sorted[Len(sorted)]).value < 0
         THEN Append(insertVersion(SubSeq(sorted, 1, Len(sorted) - 1), x), sorted[Len(sorted)])
    ELSE Append(sorted, x)

RECURSIVE sortVersions(_, _, _)
sortVersions(vs, i, sorted) ==
    IF i > Len(vs) THEN sorted ELSE sortVersions(vs, i + 1, insertVersion(sorted, vs[i]))

\* The loop of findMin over the releases map, visited in the order `order` from
\* position i: the versions that pass every test, in that order.
RECURSIVE findMinLoop(_, _, _, _)
findMinLoop(releases, order, i, min) ==
    LET Passed(k, v) ==
            IF Len(releases[k]) = 0 THEN <<>>
            ELSE IF ~v.valid THEN <<>>
            ELSE IF VersionCompare(v.version, min).value < 0 THEN <<>>
            ELSE IF ~SatisfiesPythonVersion(releases[k][1]) THEN <<>>
            ELSE <<v.version>>
    IN  IF i > Len(order) THEN <<>>
        ELSE Passed(order[i], Parse(order[i])) \o findMinLoop(releases, order, i + 1, min)

\* PyPI.findMin: [version, err].
findMinIn(releases, order, min) ==
    LET Sorted(vs) ==
            IF Len(vs) = 0 THEN [version |-> ZeroVersion, err |-> ErrPackageNotFound]
            ELSE [version |-> sortVersions(vs, 1, <<>>)[1], err |-> ""]
    IN  Sorted(findMinLoop(releases, order, 1, min))

\* ------------------------------------------------------------ function calls
MaxReqs == 2

\* Version strings; the last is not a version.
VersionTexts ==
    {"0", "0.6", "0.6.*", "0.6.1", "0.6.99", "0.7.0", "1", "1.0", "1!1", "1!0.6.1",
     "1a1", "1rc1", "1.post1", "1.post0", "1.dev1", "1a1.dev1", "1+u-1", "1.0RC1", "1.*", "1.x"}

ParsedVersions == {Parse(t).version : t \in {x \in VersionTexts : Parse(x).valid}}

\* The versions of requirements.
RequirementVersions == {Parse(t).version : t \in {"0", "0.6", "1", "1.0", "1a1"}}

Operators == {"<=", "<", "!=", "==", ">=", ">", "~=", "==="}

Requirements == {Requirement(op, v) : op \in Operators, v \in RequirementVersions}

\* Normalized package names of manifest entries.
ManifestNames == {"a", "a-b", "a1"}

MaxLeaves == 3

\* The boolean forms with n comparisons.
RECURSIVE FormsOf(_)
FormsOf(n) ==
    IF n = 1 THEN {[kind |-> "atom", text |-> t] : t \in MarkerAtoms}
    ELSE UNION {{[kind |-> k, left |-> l, right |-> r] :
                    k \in {"or", "and"}, l \in FormsOf(i), r \in FormsOf(n - i)} : i \in 1..n - 1}

Forms == UNION {FormsOf(n) : n \in 1..MaxLeaves}

\* A form written as a marker expression: parentheses around an 'or' below an
\* 'and', and around a right operand with the operator of its parent.
RECURSIVE Render(_, _, _)
Render(f, parent, side) ==
    IF f.kind = "atom" THEN f.text
    ELSE LET body == Render(f.left, f.kind, "left") \o " " \o f.kind \o " "
                        \o Render(f.right, f.kind, "right")
         IN  IF (f.kind = "or" /\ parent = "and") \/ (f.kind = parent /\ side = "right")
             THEN "(" \o body \o ")"
             ELSE body

RECURSIVE RenderMarkers(_, _)
RenderMarkers(markers, i) ==
    IF i > Len(markers) THEN ""
    ELSE " ; " \o Render(markers[i], "", "") \o RenderMarkers(markers, i + 1)

RenderExtras(ex) ==
    IF ex = <<>> THEN "" ELSE IF Len(ex) = 1 THEN "[" \o ex[1] \o "]" ELSE "[" \o ex[1] \o ", " \o ex[2] \o "]"

\* Dependency specifications: name, extras, a version range and markers.
DependencyForms ==
    {[extras |-> ex, markers |-> m] :
        ex \in {<<>>, <<"windows">>, <<"test", "windows">>},
        m \in {<<>>} \cup {<<f>> : f \in Forms} \cup {<<f, g>> : f, g \in FormsOf(1)}}

DependencyText(form) ==
    "numpy" \o RenderExtras(form.extras) \o " (>=1.16.0,<1.19.0)" \o RenderMarkers(form.markers, 1)

Environments ==
    {[extra |-> "test", python_version |-> "3.6", os_name |-> "posix"],
     [python_version |-> "3.10", os_name |-> "nt"]}

EvaluateCalls ==
    {[fn |-> "Evaluate", form |-> f, input |-> DependencyText(f), env |-> env] :
        f \in DependencyForms, env \in Environments}

CompareCalls == {[fn |-> "Compare", a |-> a, b |-> b] : a, b \in ParsedVersions}

MatchCalls == {[fn |-> "Match", v |-> v, v2 |-> v2] : v, v2 \in ParsedVersions}

MinimalCalls == {[fn |-> "Minimal", vrs |-> vrs] : vrs \in SeqsUpTo(Requirements, MaxReqs)}

MarshalCalls ==
    {[fn |-> "MarshalJSON", d |-> [Name |-> n, Version |-> v]] :
        n \in ManifestNames, v \in ParsedVersions \cup {ZeroVersion}}

MaxPage == 3

\* The hrefs of an index page of package "a": wheels of three tag sets, one of
\* them not accepted by the environment, source distributions, and a link that
\* is no artifact.
Hrefs ==
    {"a-" \o v \o k : v \in {"0.6", "1"},
                      k \in {"-py3-none-any.whl", "-cp36-abi3-linux.whl", "-py2.py3-none-any.whl",
                             "-py2-none-any.whl", ".tar.gz"}}
    \cup {"index.html"}

\* Candidates as the callers of selectPrefered build them.
Candidates == {ParseWheel(h).p : h \in {x \in Hrefs : ParseWheel(x).ok}}
              \cup {ParseSdistFilename(h, ".tar.gz").p : h \in {x \in Hrefs : HasSuffix(x, ".tar.gz")}}

SelectCalls ==
    {[fn |-> "selectPrefered", packages |-> ps] : ps \in SeqsUpTo(Candidates, MaxPage) \ {<<>>}}

PageCalls ==
    {[fn |-> "FindPackage", page |-> pg, v |-> v] :
        pg \in SeqsUpTo(Hrefs, MaxPage), v \in {ZeroVersion, Parse("1").version}}

\* The keys of the "releases" object of a JSON response; the last is no version.
ReleaseKeys == {"0.6", "1", "1.post0", "x"}

\* The artifacts of a release, each by its requires_python.
ReleaseFiles == {<<>>, <<"">>, <<">=3.9", "">>}

\* The request for version v is answered 404 and the second response carries releases.
NotFoundCalls ==
    {[fn |-> "FindPackage404", releases |-> rs, v |-> v] :
        rs \in [ReleaseKeys -> ReleaseFiles],
        v \in {ZeroVersion} \cup {Parse(t).version : t \in {"0.7.0", "1", "1.post1"}}}

PureInit ==
    /\ call \in CompareCalls \cup MatchCalls \cup MinimalCalls \cup MarshalCalls \cup EvaluateCalls
                \cup SelectCalls \cup PageCalls \cup NotFoundCalls
    /\ ret = Pending
    /\ MvsUnused /\ CacheUnused /\ CmdUnused

CallCompare ==
    /\ call.fn = "Compare" /\ ~ret.done
    /\ ret' = [done |-> TRUE, panic |-> VersionCompare(call.a, call.b).panic,
               value |-> VersionCompare(call.a, call.b).value]
    /\ UNCHANGED <<call, mvsVars, cacheVars, cmdVars>>

CallMatch ==
    /\ call.fn = "Match" /\ ~ret.done
    /\ ret' = [done |-> TRUE, value |-> Match(call.v, call.v2)]
    /\ UNCHANGED <<call, mvsVars, cacheVars, cmdVars>>

CallMinimal ==
    /\ call.fn = "Minimal" /\ ~ret.done
    /\ ret' = [done |-> TRUE, version |-> Minimal(call.vrs)]
    /\ UNCHANGED <<call, mvsVars, cacheVars, cmdVars>>

\* The manifest is written: json.Marshal of the dependency.
CallMarshalJSON ==
    /\ call.fn = "MarshalJSON" /\ ~ret.done
    /\ ret' = [done |-> TRUE, b |-> MarshalJSON(call.d).b, err |-> MarshalJSON(call.d).err]
    /\ UNCHANGED <<call, mvsVars, cacheVars, cmdVars>>

\* The manifest is read back: json.Unmarshal of what was written.
CallUnmarshalJSON ==
    /\ call.fn = "MarshalJSON" /\ ret.done /\ ret.err = ""
    /\ call' = [fn |-> "UnmarshalJSON", b |-> ret.b, written |-> call.d]
    /\ ret' = [done |-> TRUE, d |-> UnmarshalJSON(ret.b).d, err |-> UnmarshalJSON(ret.b).err]
    /\ UNCHANGED <<mvsVars, cacheVars, cmdVars>>

\* A specification is parsed and evaluated in an environment.
CallEvaluate ==
    /\ call.fn = "Evaluate" /\ ~ret.done
    /\ \E d \in {ParseDependency(call.input)} :
           \/ ~d.ok /\ ret' = [done |-> TRUE, parsed |-> FALSE, value |-> FALSE, err |-> "parse"]
           \/ /\ d.ok
              /\ \E install \in {DependencyEvaluate(IF d.ok THEN d.val ELSE [Extras |-> <<>>, expr |-> <<>>], call.env)} :
                     ret' = [done |-> TRUE, parsed |-> TRUE, value |-> install.value, err |-> install.err]
    /\ UNCHANGED <<call, mvsVars, cacheVars, cmdVars>>

CallSelectPrefered ==
    /\ call.fn = "selectPrefered" /\ ~ret.done
    /\ ret' = [done |-> TRUE, p |-> selectPrefered(call.packages)]
    /\ UNCHANGED <<call, mvsVars, cacheVars, cmdVars>>

\* Index.FindPackage on a cold cache, from the page to the package selected.
CallFindPackage ==
    /\ call.fn = "FindPackage" /\ ~ret.done
    /\ \E r \in {pageFindPackage(call.page, call.v)} :
           ret' = [done |-> TRUE, err |-> r.err, p |-> r.p, foundPackages |-> r.foundPackages]
    /\ UNCHANGED <<call, mvsVars, cacheVars, cmdVars>>

\* PyPI.FindPackage, case http.StatusNotFound: ErrPackageNotFound for an
\* unspecified v, else findMin over the releases, visited in the order of the Go
\* map, and FindPackage is called again with newVersion.
CallFindPackage404 ==
    /\ call.fn = "FindPackage404" /\ ~ret.done
    /\ IF VersionUnspecified(call.v)
       THEN ret' = [done |-> TRUE, err |-> ErrPackageNotFound, newVersion |-> ZeroVersion]
       ELSE \E order \in Orders(DOMAIN call.releases) :
              \E m \in {findMinIn(call.releases, order, call.v)} :
                ret' = [done |-> TRUE, err |-> m.err, newVersion |-> m.version]
    /\ UNCHANGED <<call, mvsVars, cacheVars, cmdVars>>

PureNext ==
    \/ CallCompare \/ CallMatch \/ CallMinimal \/ CallMarshalJSON \/ CallUnmarshalJSON
    \/ CallEvaluate \/ CallSelectPrefered \/ CallFindPackage \/ CallFindPackage404

PureSpec == PureInit /\ [][PureNext]_vars

\* ----------------------------------------------------------------- install
MaxInstalls == 3

\* The entries of a wheel archive in the order of the zip file: a directory and
\* two regular files.
Archive ==
    <<[Name |-> "a/", IsDir |-> TRUE], [Name |-> "a/m.py", IsDir |-> FALSE],
      [Name |-> "METADATA", IsDir |-> FALSE]>>

\* filepath.Join("./ropedir", "0", strings.TrimSuffix(filename, ".whl"))
installPath(filename) == "ropedir/0/" \o TrimSuffix(filename, ".whl")

\* os.MkdirAll(filepath.Dir(target)) below path.
MkdirAll(rd, path) == IF path \in DOMAIN rd THEN rd ELSE (path :> {}) @@ rd

\* os.OpenFile(target, O_WRONLY|O_CREATE|O_TRUNC) below path.
OpenFile(rd, path, name) == (path :> (rd[path] \cup {name})) @@ rd

\* return "", err and return installPath, nil
InstallReturn(path, e) == [inst EXCEPT !.pc = "returned", !.path = path, !.err = e]

\* p.Install(ctx) is called.
InstallEnter(filename) ==
    [pc |-> "fetch", filename |-> filename, i |-> 0, path |-> "", err |-> "", n |-> inst.n + 1]

\* Install, lines 145-147: p.fetch fails, or the wheel is in the cache.
InstallFetch ==
    /\ inst.pc = "fetch"
    /\ \/ inst' = InstallReturn("", "fetch")
       \/ inst' = [inst EXCEPT !.pc = "stat"]
    /\ UNCHANGED <<ropefile, ropedir, cmd, exitCode>>
    /\ UNCHANGED <<mvsVars, cacheVars, pureVars>>

\* Install, lines 149-160: os.Stat(installPath); a path that exists is returned.
InstallStat ==
    /\ inst.pc = "stat"
    /\ \/ inst' = InstallReturn("", "stat")
       \/ inst' = IF installPath(inst.filename) \in DOMAIN ropedir
                  THEN InstallReturn(installPath(inst.filename), "")
                  ELSE [inst EXCEPT !.pc = "open"]
    /\ UNCHANGED <<ropefile, ropedir, cmd, exitCode>>
    /\ UNCHANGED <<mvsVars, cacheVars, pureVars>>

\* Install, lines 163-167: zip.OpenReader(p.Path).
InstallOpenReader ==
    /\ inst.pc = "open"
    /\ \/ inst' = InstallReturn("", "zip")
       \/ inst' = [inst EXCEPT !.pc = "extract", !.i = 1]
    /\ UNCHANGED <<ropefile, ropedir, cmd, exitCode>>
    /\ UNCHANGED <<mvsVars, cacheVars, pureVars>>

\* Install, lines 169-203: one iteration of the loop over whlFile.File.  The
\* iteration fails at file.Open, at MkdirAll, at OpenFile (the directory is
\* there), at io.Copy or Close (the file is there), or it completes.
InstallFile ==
    /\ inst.pc = "extract" /\ inst.i <= Len(Archive)
    /\ LET file == Archive[inst.i]
           path == installPath(inst.filename) IN
       \/ inst' = InstallReturn("", "open") /\ UNCHANGED ropedir
       \/ file.IsDir /\ inst' = [inst EXCEPT !.i = @ + 1] /\ UNCHANGED ropedir
       \/ ~file.IsDir /\ inst' = InstallReturn("", "mkdir") /\ UNCHANGED ropedir
       \/ ~file.IsDir /\ inst' = InstallReturn("", "create") /\ ropedir' = MkdirAll(ropedir, path)
       \/ /\ ~file.IsDir
          /\ ropedir' = OpenFile(MkdirAll(ropedir, path), path, file.Name)
          /\ \/ inst' = InstallReturn("", "copy")
             \/ inst' = [inst EXCEPT !.i = @ + 1]
    /\ UNCHANGED <<ropefile, cmd, exitCode>>
    /\ UNCHANGED <<mvsVars, cacheVars, pureVars>>

\* Install, line 205: return installPath, nil.
InstallDone ==
    /\ inst.pc = "extract" /\ inst.i > Len(Archive)
    /\ inst' = InstallReturn(installPath(inst.filename), "")
    /\ UNCHANGED <<ropefile, ropedir, cmd, exitCode>>
    /\ UNCHANGED <<mvsVars, cacheVars, pureVars>>

\* A rope process calls Install on a wheel of the build list; earlier processes
\* may have called it before.
CallInstall ==
    /\ inst.pc \in {"idle", "returned"} /\ inst.n < MaxInstalls
    /\ \E filename \in {"a-1-py3-none-any.whl", "b-1-py3-none-any.whl"} :
         inst' = InstallEnter(filename)
    /\ UNCHANGED <<ropefile, ropedir, cmd, exitCode>>
    /\ UNCHANGED <<mvsVars, cacheVars, pureVars>>

InstallInit == MvsUnused /\ CacheUnused /\ PureUnused /\ CmdUnused

InstallNext ==
    \/ CallInstall \/ InstallFetch \/ InstallStat \/ InstallOpenReader
    \/ InstallFile \/ InstallDone

InstallSpec == InstallInit /\ [][InstallNext]_vars

\* --------------------------------------------------------------- rope add
MaxPackages == 1

MaxList == 2

ErrRopefileNotFound == "rope.json not found (or in any of the parent directories)"

\* ReadRopefile: [deps, err]; a rope.json that is no valid JSON, or holds a
\* dependency that does not unmarshal, is an error.
ReadRopefile(f) ==
    IF f.state = "absent" THEN [deps |-> <<>>, err |-> ErrRopefileNotFound]
    ELSE IF f.state = "invalid" THEN [deps |-> <<>>, err |-> "invalid JSON"]
    ELSE IF \E i \in 1..Len(f.deps) : UnmarshalJSON(f.deps[i]).err # ""
         THEN [deps |-> <<>>, err |-> "invalid dependency"]
    ELSE [deps |-> [i \in 1..Len(f.deps) |-> UnmarshalJSON(f.deps[i]).d], err |-> ""]

\* json.MarshalIndent(p) in WriteRopefile: [deps, err], the dependencies as
\* the strings MarshalJSON gives.
MarshalIndent(deps) ==
    IF \E i \in 1..Len(deps) : MarshalJSON(deps[i]).err # ""
    THEN [deps |-> <<>>, err |-> "marshaling"]
    ELSE [deps |-> [i \in 1..Len(deps) |-> MarshalJSON(deps[i]).b], err |-> ""]

\* The error of Install is dropped: the loop goes on with the next package.
addInstalled_IgnoresError(c, e) == [c EXCEPT !.pc = "install", !.i = @ + 1]

\* add, lines 237-239: an Install error ends the command, else the loop goes on.
addInstalled(c, e) ==
    IF e # "" THEN [c EXCEPT !.pc = "done"]
    ELSE [c EXCEPT !.pc = "install", !.i = @ + 1]

\* add returns an error at the given stage: run returns 1.
AddFails(stage) ==
    /\ cmd' = [cmd EXCEPT !.pc = "done", !.log = Append(@, stage)]
    /\ exitCode' = 1

\* The packages the index can return.
IndexPackages ==
    {[Name |-> "a", Version |-> Parse("1").version],
     [Name |-> "b", Version |-> Parse("1").version],
     [Name |-> "b", Version |-> Parse("0.6").version]}

\* The sub-lists of a list of at most MaxList entries.
SubLists(list) ==
    {<<>>, list} \cup {<<list[i]>> : i \in 1..Len(list)}

\* The filename of the wheel the index returns for a dependency of the build list.
WheelOf(d) == d.Name \o "-" \o VersionString(d.Version) \o "-py3-none-any.whl"

\* add, lines 184-191: ReadRopefile; without a rope.json the project is empty
\* and will be written to ./rope.json.
AddRead ==
    /\ cmd.pc = "read"
    /\ \E r \in {ReadRopefile(ropefile)} :
         IF r.err = ErrRopefileNotFound
         THEN cmd' = [cmd EXCEPT !.pc = "parse", !.path = "rope.json"] /\ UNCHANGED exitCode
         ELSE IF r.err # "" THEN AddFails("read")
         ELSE cmd' = [cmd EXCEPT !.pc = "parse", !.deps = r.deps] /\ UNCHANGED exitCode
    /\ UNCHANGED <<ropefile, ropedir, inst>>
    /\ UNCHANGED <<mvsVars, cacheVars, pureVars>>

\* add, lines 195-223: one iteration of the loop over the arguments: the
\* specification is parsed and checked, the index is asked, the package found
\* is appended to project.Dependencies.
AddPackage ==
    /\ cmd.pc = "parse" /\ cmd.k <= Len(cmd.packages)
    /\ \E d \in {ParseDependency(cmd.packages[cmd.k])} :
         IF ~d.ok THEN AddFails("parse")
         ELSE IF Len(d.val.Versions) > 1 THEN AddFails("parse")
         ELSE IF Len(d.val.Extras) > 0 THEN AddFails("parse")
         ELSE \/ AddFails("find")
              \/ /\ \E p \in {x \in IndexPackages : x.Name = NormalizePackageName(d.val.Name)} :
                      cmd' = [cmd EXCEPT !.k = @ + 1, !.deps = Append(@, p)]
                 /\ UNCHANGED exitCode
    /\ UNCHANGED <<ropefile, ropedir, inst>>
    /\ UNCHANGED <<mvsVars, cacheVars, pureVars>>

\* add, lines 225-228: MinimalVersionSelection fails, or returns a build list
\* and a minimal list.
AddSelect ==
    /\ cmd.pc = "parse" /\ cmd.k > Len(cmd.packages)
    /\ \/ AddFails("select")
       \/ /\ \E list \in SeqsUpTo(IndexPackages, MaxList) : \E minimal \in SubLists(list) :
               cmd' = [cmd EXCEPT !.pc = "install", !.i = 1, !.list = list, !.minimal = minimal]
          /\ UNCHANGED exitCode
    /\ UNCHANGED <<ropefile, ropedir, inst>>
    /\ UNCHANGED <<mvsVars, cacheVars, pureVars>>

\* add, lines 230-237: the package of the build list is looked up again and
\* its Install is called.
AddFindPackage ==
    /\ cmd.pc = "install" /\ cmd.i <= Len(cmd.list)
    /\ \/ AddFails("find") /\ UNCHANGED inst
       \/ /\ cmd' = [cmd EXCEPT !.pc = "installing"]
          /\ inst' = InstallEnter(WheelOf(cmd.list[cmd.i]))
          /\ UNCHANGED exitCode
    /\ UNCHANGED <<ropefile, ropedir>>
    /\ UNCHANGED <<mvsVars, cacheVars, pureVars>>

\* add, lines 237-239: Install has returned.
AddInstalled ==
    /\ cmd.pc = "installing" /\ inst.pc = "returned"
    /\ \E c \in {addInstalled(cmd, inst.err)} :
         /\ cmd' = [c EXCEPT !.log = IF inst.err # "" THEN Append(@, "install") ELSE @]
         /\ exitCode' = IF c.pc = "done" THEN 1 ELSE exitCode
    /\ UNCHANGED <<ropefile, ropedir, inst>>
    /\ UNCHANGED <<mvsVars, cacheVars, pureVars>>

\* add, lines 242-243 and WriteRopefile: the minimal list is marshalled and
\* rope.json is written; a failed write leaves the file as it was or cut short.
AddWrite ==
    /\ cmd.pc = "install" /\ cmd.i > Len(cmd.list)
    /\ \E m \in {MarshalIndent(cmd.minimal)} :
         IF m.err # "" THEN AddFails("write") /\ UNCHANGED ropefile
         ELSE \/ /\ ropefile' = [state |-> "valid", deps |-> m.deps]
                 /\ cmd' = [cmd EXCEPT !.pc = "done"]
                 /\ exitCode' = 0
              \/ /\ AddFails("write")
                 /\ ropefile' \in {ropefile, [state |-> "invalid", deps |-> <<>>]}
    /\ UNCHANGED <<ropedir, inst>>
    /\ UNCHANGED <<mvsVars, cacheVars, pureVars>>

\* The arguments of rope add.
PackageArgs ==
    SeqsUpTo({"a", "a==1", "a[x]", "a>=0.6,<1", "b==0.6", "=="}, MaxPackages) \ {<<>>}

\* rope.json when the command starts.
Ropefiles ==
    {[state |-> "absent", deps |-> <<>>], [state |-> "invalid", deps |-> <<>>],
     [state |-> "valid", deps |-> <<>>], [state |-> "valid", deps |-> <<"b-1">>]}

AddInit ==
    /\ ropefile \in Ropefiles
    /\ ropedir = <<>>
    /\ \E ps \in PackageArgs :
         cmd = [pc |-> "read", packages |-> ps, k |-> 1, deps |-> <<>>, path |-> "",
                list |-> <<>>, minimal |-> <<>>, i |-> 1, before |-> ropefile, log |-> <<>>]
    /\ inst = NoInstall
    /\ exitCode = -1
    /\ MvsUnused /\ CacheUnused /\ PureUnused

AddNext ==
    \/ AddRead \/ AddPackage \/ AddSelect \/ AddFindPackage \/ AddInstalled \/ AddWrite
    \/ InstallFetch \/ InstallStat \/ InstallOpenReader \/ InstallFile \/ InstallDone

AddSpec == AddInit /\ [][AddNext]_vars

\* ------------------------------------------------------- vocabulary of the claims
NamesOf(list) == {list[i].Name : i \in 1..Len(list)}

\* The version a returned list gives name n (Unspec when it does not list n).
VersionIn(list, n) ==
    IF n \in NamesOf(list) THEN (CHOOSE d \in Range(list) : d.Name = n).Version ELSE Unspec

\* The requirements declared by the packages explored in this run.
Declared == UNION {Range(pdeps[<<e.name, e.found>>]) : e \in explored}

\* Every FindPackage of this run returned the version it was asked for.
ExactIndex == \A e \in explored : ~Unspecified(e.asked) => e.found = e.asked

SpecifiedFor(n) == {r.Version : r \in {q \in Range(base) \cup Declared : q.Name = n /\ ~Unspecified(q.Version)}}

\* C1: with an index that returns exactly the requested version, every name with a
\* specified requirement (base or declared by an explored package) is in the build
\* list at the greatest specified version among those requirements.
C1_GreatestLowerBound ==
    (pc = "done" /\ ExactIndex) =>
        \A n \in Names : SpecifiedFor(n) # {} => VersionIn(buildList, n) = Max(SpecifiedFor(n))

\* C2: running again with base = minimal returns a build list with the same names
\* and versions as the first build list.
C2_Reproducible ==
    (run = 2 /\ mode = "minimal" /\ pc = "done") => Manifest(buildList) = first.build

\* The names reachable from the base names through the dependencies of the selected versions.
RECURSIVE Closure(_)
Closure(S) ==
    LET T == S \cup {d.Name : d \in UNION {Range(buildDependencies[n].dependencies) :
                                            n \in S \cap DOMAIN buildDependencies}}
    IN  IF T = S THEN S ELSE Closure(T)

\* C9: the build list contains only packages reachable from the base list through
\* the dependencies of the finally selected versions.
C9_OnlyReachable ==
    pc = "done" => NamesOf(buildList) \subseteq Closure(NamesOf(base))

\* C8 as stated: the run repeated with a proper subset of the minimal list as base
\* yields a build list different from the original build list.
C8_Smallest ==
    (run = 2 /\ mode = "subset" /\ pc = "done") => Manifest(buildList) # first.build

\* C8: the minimal list is not reduced to the smallest declaration: it holds every
\* base name, at its build-list version, also a name that a selected package
\* already requires (so a proper subset of it can yield the same build list).
C8_KeepsEveryBaseName ==
    pc = "done" =>
        \A d \in Range(base) :
            /\ d.Name \in NamesOf(minimalList)
            /\ VersionIn(minimalList, d.Name) = VersionIn(buildList, d.Name)

\* The run repeated without a base entry that a remaining entry's package requires
\* at the same version returned the original build list.
C8_Witness ==
    /\ run = 2 /\ mode = "subset" /\ pc = "done"
    /\ Manifest(buildList) = first.build
    /\ \E d \in Range(first.minimal) :
         /\ d.Name \in first.names \ NamesOf(base)
         /\ Req(d.Name, VersionIn(first.build, d.Name)) \in Declared

\* The lists returned when the maps are visited in the order `order`.
ResultFor(order) ==
    LET ws == walkAll(buildDependencies, order, 1, [cache |-> <<>>, unspecified |-> {}])
    IN  <<Manifest(BuildListOf(buildDependencies, order)),
          Manifest(MinimalListOf(minimalDependencies(base, buildDependencies, ws.unspecified), order))>>

Ascending(list) == \A i \in 1..Len(list) - 1 : NameLess(list[i].Name, list[i + 1].Name)

\* C6: for a fixed base and index the build and minimal lists do not depend on the
\* map iteration order, are sorted ascending by name and list each name once.
C6_Deterministic ==
    pc = "done" =>
        /\ \A order \in Orders(DOMAIN buildDependencies) :
               ResultFor(order) = <<Manifest(buildList), Manifest(minimalList)>>
        /\ Ascending(buildList) /\ Ascending(minimalList)

Terminated == pc \in {"done", "error"}

DepNames(n) == {d.Name : d \in Range(buildDependencies[n].dependencies)}

\* C3: the run terminates, the work queue of a successful run is empty, and no
\* requirement declared by a package is appended to work more than once.
C3_Terminates ==
    /\ <>Terminated
    /\ [](pc = "done" => work = <<>>)
    /\ [](\A d \in DOMAIN enq : enq[d] <= 1)

\* A finished run over a cyclic graph: two selected packages require each other.
C3_Witness ==
    /\ pc = "done"
    /\ \E n1, n2 \in DOMAIN buildDependencies :
         n1 # n2 /\ n2 \in DepNames(n1) /\ n1 \in DepNames(n2)

DeclaredFor(n) == {r \in Declared : r.Name = n}

\* The index holds (n, v) as far as it has been read.
Contains(n, v) == <<n, v>> \in DOMAIN present => present[<<n, v>>]

Pinned(d) ==
    /\ ~Unspecified(d.Version)
    /\ \A r \in DeclaredFor(d.Name) : Unspecified(r.Version)
    /\ Contains(d.Name, d.Version)

RequiredUnspecified(n) == \E r \in DeclaredFor(n) : Unspecified(r.Version)

PinnedInMinimal(n) ==
    /\ n \in NamesOf(minimalList) /\ n \in NamesOf(buildList)
    /\ VersionIn(minimalList, n) = VersionIn(buildList, n)

Flagged(n) ==
    /\ n \in DOMAIN buildDependencies
    /\ buildDependencies[n].value.Unspecified \/ buildDependencies[n].value.Mismatch

\* Scenario S3 with torch = "a", tensorflow = "b", numpy = "a1": base = [a, b]
\* unspecified, a requires a1 unspecified, b requires a1 1, every version asked for exists.
S3 ==
    /\ base = <<Req("a", Unspec), Req("b", Unspec)>>
    /\ ExactIndex
    /\ \E ea, eb \in explored :
         /\ ea.name = "a" /\ pdeps[<<"a", ea.found>>] = <<Req("a1", Unspec)>>
         /\ eb.name = "b" /\ pdeps[<<"b", eb.found>>] = <<Req("a1", 1)>>
    /\ \A e \in explored : e.name = "a1" => pdeps[<<"a1", e.found>>] = <<>>

C7_BuildSpecifiedMinimalSubset ==
    pc = "done" =>
        /\ \A i \in 1..Len(buildList) : ~Unspecified(buildList[i].Version)
        /\ NamesOf(minimalList) \subseteq NamesOf(buildList)

\* A successful run that resolved an unspecified requirement and whose minimal list
\* is a proper, non-empty part of the build list.
C7_Witness ==
    /\ pc = "done"
    /\ \E e \in explored : Unspecified(e.asked)
    /\ minimalList # <<>>
    /\ NamesOf(minimalList) # NamesOf(buildList)

\* C10: when FindPackage fails the run stops with an error that wraps the index error
\* with the failing requirement's name-version, and returns neither list.
C10_FindPackageError ==
    /\ pc = "error" =>
          /\ Len(failed) = 1
          /\ err.cause = ErrPackageNotFound
          /\ err.context = failed[1].Name \o "-" \o String(failed[1].Version)
          /\ buildList = <<>> /\ minimalList = <<>>
          /\ ~ENABLED Next
    /\ pc # "error" => (err = NoError /\ failed = <<>>)

\* FindPackage failed after other packages had been recorded and work was left.
C10_Witness == pc = "error" /\ DOMAIN buildDependencies # {} /\ work # <<>>

\* C20: after a successful run the names of the minimal list are exactly the base
\* names and the names whose final build entry has the Unspecified or the Mismatch
\* flag, and every minimal-list entry has the version of the build-list entry of
\* the same name.
C20_MinimalIsBaseAndFlagged ==
    pc = "done" =>
        /\ NamesOf(minimalList) = NamesOf(base) \cup {n \in Names : Flagged(n)}
        /\ \A i \in 1..Len(minimalList) :
              /\ minimalList[i].Name \in NamesOf(buildList)
              /\ minimalList[i].Version = VersionIn(buildList, minimalList[i].Name)

\* C11: in every state, also between the steps of AddWheel and after an AddWheel
\* that failed, every filename recorded in index.json is a file of the same directory.
C11_IndexedFilesExist ==
    \A i \in 1..Len(indexJson.lines) : indexJson.lines[i].file \in cacheDir

\* C12: a GetWheel that follows an AddWheel of w that returned without error, asked
\* for w's version, returns without error a wheel located in the cache directory,
\* provided w is compatible with the environment.
C12_AddedWheelIsFound ==
    observed.op = "GetWheel" =>
        \A w \in observed.added :
            (Equal(w.version, observed.v) /\ Compatible(w)) =>
                /\ observed.err = ""
                /\ observed.wheel # NoWheel
                /\ observed.Path = getPath(observed.wheel.filename)

\* C13: with ROPE_CACHE_ONLY set to a true value FindPackage issues no network
\* request: it returns the wheel the cache holds, or an error when the cache
\* lookup yields no wheel.
C13_CacheOnlyNoNetwork ==
    ParseBool(cacheOnlyEnv) =>
        /\ requests = 0
        /\ rope.pc = "idle"
        /\ returned.op = "FindPackage" =>
              LET g == GetWheel(indexJson, root, returned.v) IN
              IF g.wheel # NoWheel
              THEN returned.wheel = g.wheel /\ returned.Path = g.Path /\ returned.err = ""
              ELSE returned.wheel = NoWheel /\ returned.err # ""

\* ROPE_CACHE_ONLY is true, the cache could be read and held no wheel of the version.
C13_Witness ==
    /\ ParseBool(cacheOnlyEnv)
    /\ returned.op = "FindPackage"
    /\ returned.err = "package not found in cache (ROPE_CACHE_ONLY is set)"
    /\ ~Unspecified(returned.v) /\ indexJson.exists

\* C19: a step of fetch that downloaded the file: when the URL carries a sha256
\* value and the digest of the downloaded bytes differs from it, fetch returns an
\* error, index.json and the cache directory are unchanged, AddWheel is not called
\* and no Path is set; when the URL carries no sha256 value, AddWheel is called.
C19_ChecksumMismatchRejected ==
    [][(rope.pc = "fetch" /\ tempFiles' # tempFiles) =>
          LET digest == tempFiles'[TempFile(rope.w.filename, ops)] IN
          /\ (rope.sha256 # <<>> /\ (~Decoded(rope.sha256).ok \/ Decoded(rope.sha256).bytes # digest))
                => /\ rope'.pc = "idle"
                   /\ returned'.err # "" /\ returned'.Path = "" /\ returned'.wheel = NoWheel
                   /\ indexJson' = indexJson /\ cacheDir' = cacheDir
          /\ rope.sha256 = <<>> => rope'.pc = "AddWheel"]_vars

\* C14: Compare(a, b) = -Compare(b, a) for every pair of parsed versions, and
\* Compare does not panic.
C14_CompareAntisymmetric ==
    (call.fn = "Compare" /\ ret.done) =>
        /\ ~ret.panic
        /\ ~VersionCompare(call.b, call.a).panic
        /\ ret.value = -1 * VersionCompare(call.b, call.a).value

\* A dev release was compared with the final release of the same number.
C14_Witness ==
    /\ call.fn = "Compare" /\ ret.done
    /\ call.a.DevRelease /\ ~call.b.DevRelease
    /\ call.a.Release = call.b.Release /\ call.a.Epoch = call.b.Epoch
    /\ ret.value = -1

\* C15: a wildcard version X.* matches, in either argument order, exactly the
\* versions with X's epoch whose release begins with the release segments of X.
C15_WildcardMatchesPrefix ==
    (call.fn = "Match" /\ ret.done) =>
        LET begins(x, o) ==
                /\ x.Epoch = o.Epoch
                /\ \A i \in 1..x.ReleaseVersions : x.Release[i] = o.Release[i]
        IN  /\ (call.v.Wildcard /\ ~call.v2.Wildcard) => (ret.value <=> begins(call.v, call.v2))
            /\ (call.v2.Wildcard /\ ~call.v.Wildcard) => (ret.value <=> begins(call.v2, call.v))

\* C16: Minimal returns a greatest version among the requirements with operator
\* >=, ==, ~= or ===, and the unspecified version only when there is none.
C16_MinimalGreatestLowerBound ==
    (call.fn = "Minimal" /\ ret.done) =>
        LET lows == {call.vrs[i].Version :
                        i \in {j \in 1..Len(call.vrs) : call.vrs[j].Operator \in LowerBoundOperators}}
        IN  IF lows = {} THEN VersionUnspecified(ret.version)
            ELSE /\ ret.version \in lows
                 /\ \A v \in lows : VersionCompare(v, ret.version).value <= 0

\* C18: a dependency with a normalized name and a specified version, written by
\* MarshalJSON and read by UnmarshalJSON, comes back without error with the same
\* name and an equal version.
C18_ManifestRoundTrip ==
    (call.fn = "UnmarshalJSON" /\ ret.done) =>
        /\ ret.err = ""
        /\ ret.d.Name = call.written.Name
        /\ VersionEqual(ret.d.Version, call.written.Version)
\* The value of one comparison in env, as exprMarker.Evaluate gives it.
Comparison(text, env) == Evaluate(environmentMarkerExpression(text, 1).val, env)

\* Boolean algebra over the comparisons of a form.
RECURSIVE Truth(_, _)
Truth(f, env) ==
    IF f.kind = "atom" THEN Comparison(f.text, env).value
    ELSE IF f.kind = "or" THEN Truth(f.left, env) \/ Truth(f.right, env)
    ELSE Truth(f.left, env) /\ Truth(f.right, env)

\* Every comparison of the form has a value in env: none fails with an error.
RECURSIVE Defined(_, _)
Defined(f, env) ==
    IF f.kind = "atom" THEN Comparison(f.text, env).err = ""
    ELSE Defined(f.left, env) /\ Defined(f.right, env)

Installable(form, env) ==
    /\ \/ form.extras = <<>>
       \/ "extra" \in DOMAIN env /\ \E i \in 1..Len(form.extras) : form.extras[i] = env["extra"]
    /\ \A i \in 1..Len(form.markers) : Truth(form.markers[i], env)

SameUpToPreRelease(a, b) ==
    /\ a.Epoch = b.Epoch
    /\ a.Release = b.Release
    /\ a.PreReleasePhase = b.PreReleasePhase
    /\ a.PreReleaseVersion = b.PreReleaseVersion

\* C26: for versions a and b that agree in epoch, zero-padded release and
\* pre-release, if a has a post-release segment (with any number) and b has
\* none, then Compare(a, b) = 1 and Compare(b, a) = -1.
C26_PostPresenceAboveAbsence ==
    (call.fn = "Compare" /\ ret.done /\ SameUpToPreRelease(call.a, call.b)) =>
        /\ (call.a.PostRelease /\ ~call.b.PostRelease) => (~ret.panic /\ ret.value = 1)
        /\ (~call.a.PostRelease /\ call.b.PostRelease) => (~ret.panic /\ ret.value = -1)

\* ---------------------------------------------------------------------- C28
\* C28: a dependency declared by an explored package is skipped only if a
\* dependency with the same name and the same version was appended to work
\* before: every requirement declared by an explored package has been appended
\* at least once, also when its name ends in a digit.
C28_SkippedOnlyIfEnqueued ==
    \A d \in Declared : Count(enq, d) > 0

\* ---------------------------------------------------------------------- C24
\* The positions of the entries of index.json recorded for a filename.
EntriesFor(lines, file) == {i \in 1..Len(lines) : lines[i].file = file}

\* C24: a GetWheel that returns a wheel whose filename has several entries in
\* index.json returns it with the requires_dist of the last of those entries.
C24_LatestEntryWins ==
    [][(observed' # observed /\ observed'.wheel # NoWheel
          /\ Cardinality(EntriesFor(indexJson.lines, observed'.wheel.filename)) > 1) =>
            observed'.wheel.RequiresDist =
                indexJson.lines[Max(EntriesFor(indexJson.lines, observed'.wheel.filename))].requires_dist]_vars

\* ---------------------------------------------------------------------- C25
CacheReadErrors == {"opening cache index: permission denied"}

\* C25: FindPackage never returns an error of reading the cache: when index.json
\* cannot be opened although it exists, the lookup goes on with the index.
C25_CacheReadErrorIsMiss ==
    returned.op = "FindPackage" => returned.err \notin CacheReadErrors

\* ---------------------------------------------------------------------- C29
\* C29: a wheel that FindPackage returns from the cache, after this process
\* obtained it from the simple index and added it to the cache, reports the
\* same Dependencies() as it reported then (the rows of its METADATA).
C29_CacheTransparent ==
    [][(returned' # returned /\ rope.pc \in {"idle", "request"} /\ returned'.wheel # NoWheel
          /\ \E w \in added : w.filename = returned'.wheel.filename) =>
            Dependencies(returned'.wheel) =
                Dependencies(extractDependencies(ParseWheelFilename(returned'.wheel.filename)))]_vars

\* ---------------------------------------------------------------------- C21
\* The compatible artifacts of an index page.
CompatibleOn(page) ==
    {checkCompatability(page[i]).p : i \in {j \in 1..Len(page) : checkCompatability(page[j]).ok}}

\* No compatible artifact of the page has a greater version than v.
GreatestOn(page, v) == \A c \in CompatibleOn(page) : VersionCompare(c.version, v).value <= 0

\* C21: for an unspecified request and any order of the page, when the page has
\* a compatible artifact, every candidate FindPackage selects among has the
\* greatest version of the compatible artifacts, and so has the package returned.
C21_GreatestVersionAnyOrder ==
    (call.fn = "FindPackage" /\ ret.done /\ VersionUnspecified(call.v)
        /\ CompatibleOn(call.page) # {}) =>
            /\ ret.err = ""
            /\ \A i \in 1..Len(ret.foundPackages) :
                   GreatestOn(call.page, ret.foundPackages[i].version)
            /\ GreatestOn(call.page, ret.p.version)

\* ---------------------------------------------------------------------- C22
WheelsOf(packages) == {i \in 1..Len(packages) : packages[i].kind = "wheel"}

\* The wheels of the highest Preference among the wheels of packages.
BestWheels(packages) ==
    {i \in WheelsOf(packages) :
        \A j \in WheelsOf(packages) : Preference(packages[j]) <= Preference(packages[i])}

Below(a, b) ==
    \/ VersionCompare(a, b).value < 0
    \/ VersionCompare(a, b).value = 0 /\ ~a.PostRelease /\ b.PostRelease

\* The releases with at least one artifact, a first artifact whose
\* requires_python the environment satisfies, and a version not below v.
Eligible(releases, v) ==
    {Parse(k).version :
        k \in {x \in DOMAIN releases :
                 /\ Parse(x).valid
                 /\ Len(releases[x]) > 0
                 /\ SatisfiesPythonVersion(IF Len(releases[x]) > 0 THEN releases[x][1] ELSE "")
                 /\ ~Below(Parse(x).version, v)}}

\* C23: after a 404 for a specified v, FindPackage goes on with the lowest
\* eligible release, and returns ErrPackageNotFound when no release is eligible.
C23_RelaxesToLowestAtLeast ==
    (call.fn = "FindPackage404" /\ ret.done /\ ~VersionUnspecified(call.v)) =>
        IF Eligible(call.releases, call.v) = {}
        THEN ret.err = ErrPackageNotFound
        ELSE /\ ret.err = ""
             /\ ret.newVersion \in Eligible(call.releases, call.v)
             /\ \A r \in Eligible(call.releases, call.v) : ~Below(r, ret.newVersion)

\* ---------------------------------------------------------------------- C30
RegularFiles == {Archive[i].Name : i \in {j \in 1..Len(Archive) : ~Archive[j].IsDir}}

\* C30: when Install returns an install path without error, every regular file
\* of the archive is present under that path, whatever Install calls came before.
C30_InstalledIsComplete ==
    (inst.pc = "returned" /\ inst.err = "") =>
        /\ inst.path \in DOMAIN ropedir
        /\ RegularFiles \subseteq ropedir[inst.path]

\* ---------------------------------------------------------------------- C27
\* rope.json read back: the names and versions of its dependencies.
ManifestDependencies == ReadRopefile(ropefile).deps

\* C27: rope.json is as it was until the command has resolved the versions and
\* installed every package of the build list; when parsing a specification,
\* FindPackage, MinimalVersionSelection or an Install failed, rope.json is as it
\* was and the exit code is 1; when the command ends with exit code 0 the
\* dependencies of rope.json are the minimal list.
C27_ManifestWrittenLast ==
    /\ cmd.pc # "done" => ropefile = cmd.before
    /\ (\E j \in 1..Len(cmd.log) : cmd.log[j] \in {"parse", "find", "select", "install"}) =>
           /\ ropefile = cmd.before
           /\ cmd.pc = "done" /\ exitCode = 1
    /\ exitCode = 0 =>
           /\ cmd.pc = "done" /\ cmd.log = <<>> /\ cmd.i > Len(cmd.list)
           /\ ReadRopefile(ropefile).err = ""
           /\ ManifestDependencies = cmd.minimal

\* The command wrote a manifest that differs from the one it read, after it
\* installed two packages.
C27_Witness ==
    /\ exitCode = 0 /\ Len(cmd.list) = 2 /\ Len(cmd.minimal) = 1
    /\ cmd.before.state = "valid" /\ ropefile # cmd.before
    /\ DOMAIN ropedir # {}

\* An Install of the command failed and the command ended.
C27_WitnessFailure ==
    /\ cmd.pc = "done" /\ cmd.log = <<"install">> /\ cmd.i = 2 /\ exitCode = 1


====
